---------------------------- MODULE Spec2Model ----------------------------
(***************************************************************************)
(* Model of the study-plan converter (src/src/converter.py).               *)
(*                                                                         *)
(* A Python str is a sequence of Unicode code points (naturals).  Text     *)
(* literals of the source are written as code-point sequences with the     *)
(* transliterated text in a comment.  Regular expressions and str methods  *)
(* are operators that compute what the Python library computes on the      *)
(* modelled alphabet.                                                      *)
(***************************************************************************)
EXTENDS Integers, Sequences, FiniteSets, TLC

(***************************************************************************)
(* Characters                                                              *)
(***************************************************************************)

\* str.isspace() / regex \s on a str pattern: Unicode white space
\* (TAB..CR, FS..US, SPACE, NEL, NBSP; the remaining Zs code points are
\* listed for completeness)
IsSpace(c) ==
    \/ c \in 9..13
    \/ c \in 28..32
    \/ c \in {133, 160, 5760, 8232, 8233, 8239, 8287, 12288}
    \/ c \in 8192..8202

\* first code point of the decimal-digit (Nd) block c lies in, -1 if none:
\* regex \d on a str pattern matches every Unicode decimal digit, not only
\* 0-9.  Blocks: ASCII, Arabic-Indic, Extended Arabic-Indic, Devanagari,
\* Fullwidth (the other Nd blocks behave alike)
DigitBase(c) ==
    IF c \in 48..57 THEN 48
    ELSE IF c \in 1632..1641 THEN 1632
    ELSE IF c \in 1776..1785 THEN 1776
    ELSE IF c \in 2406..2415 THEN 2406
    ELSE IF c \in 65296..65305 THEN 65296
    ELSE -1

\* regex \d
IsDigit(c) == DigitBase(c) # -1

\* str.isalpha() of one character: ASCII and Cyrillic letters
IsAlpha(c) ==
    \/ c \in 65..90
    \/ c \in 97..122
    \/ c \in 1024..1119

\* str.lower() of one character (also the case folding of re.IGNORECASE):
\* ASCII A-Z, Cyrillic U+0410..U+042F and U+0400..U+040F
LowerCh(c) ==
    IF c \in 65..90 THEN c + 32
    ELSE IF c \in 1040..1071 THEN c + 32
    ELSE IF c \in 1024..1039 THEN c + 80
    ELSE c

(***************************************************************************)
(* str methods                                                             *)
(***************************************************************************)

RECURSIVE LStrip(_)
LStrip(s) ==
    IF s = <<>> THEN s
    ELSE IF IsSpace(Head(s)) THEN LStrip(Tail(s))
    ELSE s

RECURSIVE RStrip(_)
RStrip(s) ==
    IF s = <<>> THEN s
    ELSE IF IsSpace(s[Len(s)]) THEN RStrip(SubSeq(s, 1, Len(s) - 1))
    ELSE s

\* str.strip()
Strip(s) == RStrip(LStrip(s))

\* k.lower() in s.lower()  (s and k compared after lower-casing)
ContainsLower(s, k) ==
    \E p \in 0..(Len(s) - Len(k)) :
        \A j \in 1..Len(k) : LowerCh(s[p + j]) = LowerCh(k[j])

\* k in s.lower(), for a keyword k that is already lower case
LowerContains(s, k) ==
    \E p \in 0..(Len(s) - Len(k)) :
        \A j \in 1..Len(k) : LowerCh(s[p + j]) = k[j]

\* int(s) of a string of decimal digits (any Nd block), surrounding white
\* space ignored as int() does
RECURSIVE DigitsValue(_)
DigitsValue(s) ==
    IF s = <<>> THEN 0
    ELSE 10 * DigitsValue(SubSeq(s, 1, Len(s) - 1))
         + (s[Len(s)] - DigitBase(s[Len(s)]))

IntOf(s) == DigitsValue(Strip(s))

\* int(s) accepts s: white space around an optional sign and at least one
\* decimal digit (digit grouping with "_" is not modelled); otherwise int()
\* raises ValueError
IntLiteral(s) ==
    LET t == Strip(s)
        body == IF t # <<>> /\ t[1] \in {43, 45} THEN Tail(t) ELSE t
    IN /\ body # <<>>
       /\ \A j \in 1..Len(body) : IsDigit(body[j])

\* " ".join(parts)
RECURSIVE JoinSpace(_)
JoinSpace(parts) ==
    IF parts = <<>> THEN <<>>
    ELSE IF Len(parts) = 1 THEN parts[1]
    ELSE parts[1] \o <<32>> \o JoinSpace(Tail(parts))

(***************************************************************************)
(* Line predicates (converter.py 120-158)                                  *)
(***************************************************************************)

\* _num_re = ^\d{1,4}$ ; a trailing newline before $ cannot occur, the
\* argument is always stripped
num_re_match(s) ==
    /\ Len(s) \in 1..4
    /\ \A j \in 1..Len(s) : IsDigit(s[j])

is_int_line(line) == num_re_match(Strip(line))

\* "Blok"
BlokWord == <<1041, 1083, 1086, 1082>>

\* _block_re = ^Blok\s+(\d+)\.(.*)$ with IGNORECASE, used with match():
\* the word, w >= 1 white-space characters, d >= 1 digits, a full stop and a
\* rest without newline
block_re_match(s) ==
    /\ Len(s) >= Len(BlokWord) + 3
    /\ \A j \in 1..Len(BlokWord) : LowerCh(s[j]) = LowerCh(BlokWord[j])
    /\ \E w \in 1..(Len(s) - Len(BlokWord)) :
         \E d \in 1..(Len(s) - Len(BlokWord) - w) :
            /\ \A j \in 1..w : IsSpace(s[Len(BlokWord) + j])
            /\ \A j \in 1..d : IsDigit(s[Len(BlokWord) + w + j])
            /\ Len(BlokWord) + w + d + 1 <= Len(s)
            /\ s[Len(BlokWord) + w + d + 1] = 46
            /\ \A j \in (Len(BlokWord) + w + d + 2)..Len(s) : s[j] # 10

\* "semest"
SemestWord == <<1089, 1077, 1084, 1077, 1089, 1090>>

\* variant: the pattern without \s*, (\d)semest
SemMatchAt_NoSpace(s, p) ==
    /\ IsDigit(s[p])
    /\ p + Len(SemestWord) <= Len(s)
    /\ \A j \in 1..Len(SemestWord) :
           LowerCh(s[p + j]) = LowerCh(SemestWord[j])

\* _sem_re = (\d)\s*semest with IGNORECASE matches with its digit at p
SemMatchAt(s, p) ==
    /\ IsDigit(s[p])
    /\ \E w \in 0..(Len(s) - p) :
         /\ \A j \in 1..w : IsSpace(s[p + j])
         /\ p + w + Len(SemestWord) <= Len(s)
         /\ \A j \in 1..Len(SemestWord) :
                LowerCh(s[p + w + j]) = LowerCh(SemestWord[j])

\* _sem_re.search(s): position of the leftmost match, 0 if there is none
sem_re_search(s) ==
    LET ps == {p \in 1..Len(s) : SemMatchAt(s, p)}
    IN IF ps = {} THEN 0 ELSE CHOOSE p \in ps : \A q \in ps : p <= q

\* _total_keywords = ["itog", "itogi", "vsego", "summa"]
total_keywords ==
    << <<1080, 1090, 1086, 1075>>,
       <<1080, 1090, 1086, 1075, 1080>>,
       <<1074, 1089, 1077, 1075, 1086>>,
       <<1089, 1091, 1084, 1084, 1072>> >>

is_total_line(line) ==
    \E k \in 1..Len(total_keywords) : LowerContains(line, total_keywords[k])

\* the keywords of _looks_like_section_title:
\* "Obyazatelnye discipliny", "Pul vybornyh disciplin", "Praktika po vyboru",
\* "Universalnaya (nadprofessionalnaya) podgotovka",
\* "Gosudarstvennaya itogovaya attestaciya", "Fakultativnye moduli",
\* "Praktika", "GIA"
section_keywords ==
    << <<1054, 1073, 1103, 1079, 1072, 1090, 1077, 1083, 1100, 1085, 1099,
         1077, 32, 1076, 1080, 1089, 1094, 1080, 1087, 1083, 1080, 1085, 1099>>,
       <<1055, 1091, 1083, 32, 1074, 1099, 1073, 1086, 1088, 1085, 1099, 1093,
         32, 1076, 1080, 1089, 1094, 1080, 1087, 1083, 1080, 1085>>,
       <<1055, 1088, 1072, 1082, 1090, 1080, 1082, 1072, 32, 1087, 1086, 32,
         1074, 1099, 1073, 1086, 1088, 1091>>,
       <<1059, 1085, 1080, 1074, 1077, 1088, 1089, 1072, 1083, 1100, 1085,
         1072, 1103, 32, 40, 1085, 1072, 1076, 1087, 1088, 1086, 1092, 1077,
         1089, 1089, 1080, 1086, 1085, 1072, 1083, 1100, 1085, 1072, 1103, 41,
         32, 1087, 1086, 1076, 1075, 1086, 1090, 1086, 1074, 1082, 1072>>,
       <<1043, 1086, 1089, 1091, 1076, 1072, 1088, 1089, 1090, 1074, 1077,
         1085, 1085, 1072, 1103, 32, 1080, 1090, 1086, 1075, 1086, 1074, 1072,
         1103, 32, 1072, 1090, 1090, 1077, 1089, 1090, 1072, 1094, 1080, 1103>>,
       <<1060, 1072, 1082, 1091, 1083, 1100, 1090, 1072, 1090, 1080, 1074,
         1085, 1099, 1077, 32, 1084, 1086, 1076, 1091, 1083, 1080>>,
       <<1055, 1088, 1072, 1082, 1090, 1080, 1082, 1072>>,
       <<1043, 1048, 1040>> >>

looks_like_section_title(line) ==
    IF line = <<>> THEN FALSE
    ELSE IF sem_re_search(line) # 0 THEN TRUE
    ELSE \E k \in 1..Len(section_keywords) :
            ContainsLower(line, section_keywords[k])

\* the absent value (Python None) of an integer field
None == -1

NoTriple == [credits |-> None, hours |-> None, semester |-> None]
\* the outcome "int() raised ValueError"
ValueError == [credits |-> -2, hours |-> -2, semester |-> -2]

\* variant: the first two numbers are read in the wrong order
try_parse_three_numbers_swapped(ls, idx) ==
    IF /\ idx + 2 < Len(ls)
       /\ is_int_line(ls[idx + 1])
       /\ is_int_line(ls[idx + 2])
       /\ is_int_line(ls[idx + 3])
    THEN [credits  |-> IntOf(ls[idx + 2]),
          hours    |-> IntOf(ls[idx + 1]),
          semester |-> IntOf(ls[idx + 3])]
    ELSE NoTriple

try_parse_three_numbers(ls, idx) ==
    IF /\ idx + 2 < Len(ls)
       /\ is_int_line(ls[idx + 1])
       /\ is_int_line(ls[idx + 2])
       /\ is_int_line(ls[idx + 3])
    THEN IF /\ IntLiteral(ls[idx + 1])
            /\ IntLiteral(ls[idx + 2])
            /\ IntLiteral(ls[idx + 3])
         THEN [credits  |-> IntOf(ls[idx + 1]),
               hours    |-> IntOf(ls[idx + 2]),
               semester |-> IntOf(ls[idx + 3])]
         ELSE ValueError
    ELSE NoTriple

(***************************************************************************)
(* Input lines of the model                                                *)
(***************************************************************************)

\* number of items (a text line, a two-line name or a run of number lines)
\* of an input
MaxItems == 3

\* " "  (a line of white space only)
LineBlank == <<32>>
\* "Blok 3. Obrazovatelnye rezultaty"
LineBlock ==
    <<1041, 1083, 1086, 1082, 32, 51, 46, 32, 1054, 1073, 1088, 1072, 1079,
      1086, 1074, 1072, 1090, 1077, 1083, 1100, 1085, 1099, 1077, 32, 1088,
      1077, 1079, 1091, 1083, 1100, 1090, 1072, 1090, 1099>>
\* "Blok 2. Praktika"  (block header that also holds a section keyword)
LineBlockSection ==
    <<1041, 1083, 1086, 1082, 32, 50, 46, 32, 1055, 1088, 1072, 1082, 1090,
      1080, 1082, 1072>>
\* "Obyazatelnye discipliny 3 semestr"
LineSectionSem ==
    <<1054, 1073, 1103, 1079, 1072, 1090, 1077, 1083, 1100, 1085, 1099, 1077,
      32, 1076, 1080, 1089, 1094, 1080, 1087, 1083, 1080, 1085, 1099, 32, 51,
      32, 1089, 1077, 1084, 1077, 1089, 1090, 1088>>
\* "12 Semestr"  (two digits, capital S, no keyword)
LineSemOnly == <<49, 50, 32, 1057, 1077, 1084, 1077, 1089, 1090, 1088>>
\* "Gosudarstvennaya itogovaya attestaciya"  (a section keyword, no semester;
\* it holds "itog")
LineSectionTotal ==
    <<1043, 1086, 1089, 1091, 1076, 1072, 1088, 1089, 1090, 1074, 1077, 1085,
      1085, 1072, 1103, 32, 1080, 1090, 1086, 1075, 1086, 1074, 1072, 1103,
      32, 1072, 1090, 1090, 1077, 1089, 1090, 1072, 1094, 1080, 1103>>
\* "Itogo za semestr"
LineTotal ==
    <<1048, 1090, 1086, 1075, 1086, 32, 1079, 1072, 32, 1089, 1077, 1084,
      1077, 1089, 1090, 1088>>
\* "Metody"
LineName1 == <<1052, 1077, 1090, 1086, 1076, 1099>>
\* " glubokogo obucheniya"  (with a leading space)
LineName2 ==
    <<32, 1075, 1083, 1091, 1073, 1086, 1082, 1086, 1075, 1086, 32, 1086,
      1073, 1091, 1095, 1077, 1085, 1080, 1103>>

TextLines ==
    {LineBlank, LineBlock, LineBlockSection, LineSectionSem, LineSemOnly,
     LineSectionTotal, LineTotal, LineName1}

\* "5", "144", "2", "10", "20": the number lines of a run
NumberPool == << <<53>>, <<49, 52, 52>>, <<50>>, <<49, 48>>, <<50, 48>> >>

NumberRun(r) == SubSeq(NumberPool, 1, r)

\* lengths of the runs of number lines (longer runs arise from adjacent items)
RunLengths == {1, 3, 5}

\* "4", "108 ", NBSP + ARABIC-INDIC DIGIT THREE: a second triple, with
\* surrounding white space and a non-ASCII digit
OtherTriple == << <<52>>, <<49, 48, 56, 32>>, <<160, 1635>> >>

\* "Metody", " glubokogo obucheniya": a name spread over two lines
NamePair == <<LineName1, LineName2>>

Items ==
    {<<l>> : l \in TextLines}
        \cup {NumberRun(r) : r \in RunLengths}
        \cup {OtherTriple, NamePair}

RECURSIVE InputsUpTo(_)
InputsUpTo(k) ==
    IF k = 0 THEN {<<>>}
    ELSE LET shorter == InputsUpTo(k - 1)
         IN shorter \cup {p \o it : p \in shorter, it \in Items}

Inputs == InputsUpTo(MaxItems)


(***************************************************************************)
(* parse_study_plan_lines (converter.py 161-243)                           *)
(***************************************************************************)

VARIABLES
    lines,            \* the argument of parse_study_plan_lines
    i,                \* the cursor (0-based, as in the source)
    data,             \* data["blocks"]: the Document
    current_block,    \* 0 (None) or the index in data of the referenced Block
    current_section,  \* NoSection (None) or <<block index, section index>>
    buffer_name,      \* pending name fragments
    pc,               \* "loop" while the while-loop runs, then "returned"
                      \* ("raised" if an exception left the function)
    used,             \* history: how each line was consumed so far
    fn,               \* the pure function applied ("idle" before the call)
    arg,              \* its argument
    ret,              \* its result
    fitz,             \* TRUE iff "import fitz" succeeded (fitz is not None)
    pdfminer_extract_text,  \* TRUE iff the pdfminer import succeeded
    files,            \* data/processed/<stem>.txt, .xml, .structured.xml
    text,             \* the local variable text of pdf_to_txt
    ppc,              \* the position inside the pdf_to_* functions
    calls,            \* number of pdf_to_* calls made so far
    attempts,         \* history: the backends run by the current call
    writes,           \* history: the files written by the current call
    sessions,         \* ChatSessions.sessions: chat id -> ChatState
    created,          \* history: ChatState objects constructed per chat id
    update,           \* the update the bot handled last
    reply,            \* what the last handler replied (or that it raised)
    sent,             \* history: the object the last handler called
                      \* send_message on
    LATEST_PDF,       \* the module global LATEST_PDF of app/main.py
    latest_txt,       \* the content of data/latest.txt
    disk,             \* what exists at each path
    started,          \* TRUE once lifespan has run its startup part
    response          \* what the last request handler returned or raised

parserVars ==
    <<lines, i, data, current_block, current_section, buffer_name, pc, used>>
pipelineVars ==
    <<fitz, pdfminer_extract_text, files, text, ppc, calls, attempts, writes>>
\* everything outside parse_study_plan_lines
botVars == <<sessions, created, update, reply, sent>>
webVars == <<LATEST_PDF, latest_txt, disk, started, response>>
serviceVars == <<botVars, webVars>>
callVars == <<fn, arg, ret, pipelineVars, serviceVars>>
vars == <<parserVars, callVars>>

\* text = None in pdf_to_txt; a path at which no file exists
NoText == <<-1>>
NoFile == <<-1>>
\* a Path variable that is None (LATEST_PDF, st.program_path)
NoPath == <<-1>>
NoFiles == [txt |-> NoFile, xml |-> NoFile, structured |-> NoFile]

\* no pdf_to_* function is running
PipelineIdle ==
    /\ fitz = FALSE
    /\ pdfminer_extract_text = FALSE
    /\ files = NoFiles
    /\ text = NoText
    /\ ppc = "unused"
    /\ calls = 0
    /\ attempts = <<>>
    /\ writes = <<>>

\* the bot is not running
BotIdle ==
    /\ sessions = <<>>
    /\ created = <<>>
    /\ update = <<>>
    /\ reply = "unused"
    /\ sent = "unused"

\* the web application is not running
WebIdle ==
    /\ LATEST_PDF = NoPath
    /\ latest_txt = NoFile
    /\ disk = <<>>
    /\ started = FALSE
    /\ response = "unused"

ServicesIdle == BotIdle /\ WebIdle

NoSection == <<0, 0>>

\* "Blok": title of the synthetic Block
SyntheticBlockTitle == <<1041, 1083, 1086, 1082>>
\* variant: the synthetic Section has no title
SyntheticSectionTitle_Empty == <<>>

\* "Raznoe": title of the synthetic Section
SyntheticSectionTitle == <<1056, 1072, 1079, 1085, 1086, 1077>>

\* most number lines skipped after a block header / a section header
BlockSkipLimit == 4
SectionSkipLimit == 3

NewBlock(title) == [title |-> title, sections |-> <<>>]
NewSection(title, sem) ==
    [title |-> title, semester |-> sem, disciplines |-> <<>>]

\* variant: the new Section is not attached to the Block
AppendSection_Orphan(blocks, b, sec) == blocks

\* variant: the new Section is inserted before the Sections of the Block
AppendSection_AtFront(blocks, b, sec) ==
    [blocks EXCEPT ![b].sections = <<sec>> \o @]

\* current_block["sections"].append(sec), current_block referencing blocks[b]
AppendSection(blocks, b, sec) ==
    [blocks EXCEPT ![b].sections = Append(@, sec)]

\* current_section["disciplines"].append(disc)
AppendDiscipline(blocks, cs, disc) ==
    [blocks EXCEPT ![cs[1]].sections[cs[2]].disciplines = Append(@, disc)]

\* the loop after a block header: returns the cursor after the skipped lines
RECURSIVE SkipAfterBlock(_, _, _)
SkipAfterBlock(ls, idx, consumed) ==
    IF idx < Len(ls) /\ is_int_line(Strip(ls[idx + 1]))
    THEN IF consumed + 1 >= BlockSkipLimit
         THEN idx + 1
         ELSE SkipAfterBlock(ls, idx + 1, consumed + 1)
    ELSE idx

\* variant: the loop after a section header tests skip <= 3
RECURSIVE SkipAfterSection_OffByOne(_, _, _)
SkipAfterSection_OffByOne(ls, idx, skip) ==
    IF idx < Len(ls) /\ is_int_line(Strip(ls[idx + 1])) /\ skip <= SectionSkipLimit
    THEN SkipAfterSection_OffByOne(ls, idx + 1, skip + 1)
    ELSE idx

\* the loop after a section header
RECURSIVE SkipAfterSection(_, _, _)
SkipAfterSection(ls, idx, skip) ==
    IF idx < Len(ls) /\ is_int_line(Strip(ls[idx + 1])) /\ skip < SectionSkipLimit
    THEN SkipAfterSection(ls, idx + 1, skip + 1)
    ELSE idx

\* history: lines from+1..to (0-based from..to-1) were consumed as tag
Mark(u, from, to, tag) ==
    [j \in 1..Len(u) |-> IF j > from /\ j <= to THEN tag ELSE u[j]]

InLoop == pc = "loop" /\ i < Len(lines)
line == Strip(lines[i + 1])

Init ==
    /\ lines \in Inputs
    /\ i = 0
    /\ data = <<>>
    /\ current_block = 0
    /\ current_section = NoSection
    /\ buffer_name = <<>>
    /\ pc = "loop"
    /\ used = [j \in 1..Len(lines) |-> "pending"]
    /\ fn = "idle"
    /\ arg = <<>>
    /\ ret = FALSE
    /\ PipelineIdle
    /\ ServicesIdle

\* the conditions under which the loop body takes each of its branches: a
\* branch is reached only when the tests before it have failed
IsBlankLine == InLoop /\ line = <<>>

IsBlockHeader == InLoop /\ line # <<>> /\ block_re_match(line)

IsSectionHeader ==
    /\ InLoop
    /\ line # <<>>
    /\ ~block_re_match(line)
    /\ looks_like_section_title(line)

\* variant: the total test is made before the section test
IsTotalLine_BeforeSection ==
    /\ InLoop
    /\ line # <<>>
    /\ ~block_re_match(line)
    /\ is_total_line(line)

IsTotalLine ==
    /\ InLoop
    /\ line # <<>>
    /\ ~block_re_match(line)
    /\ ~looks_like_section_title(line)
    /\ is_total_line(line)

\* the line reaches "if not _is_int_line(line):" and passes it
IsNameLine ==
    /\ InLoop
    /\ line # <<>>
    /\ ~block_re_match(line)
    /\ ~looks_like_section_title(line)
    /\ ~is_total_line(line)
    /\ ~is_int_line(line)

\* the line falls through to the final "i += 1"
IsStrayInteger ==
    /\ InLoop
    /\ line # <<>>
    /\ ~block_re_match(line)
    /\ ~looks_like_section_title(line)
    /\ ~is_total_line(line)
    /\ is_int_line(line)

\* if not line: i += 1
BlankLine ==
    /\ IsBlankLine
    /\ i' = i + 1
    /\ used' = Mark(used, i, i + 1, "blank")
    /\ UNCHANGED <<lines, data, current_block, current_section, buffer_name,
                   pc, callVars>>

\* variant: current_section is not reset by a block header
BlockHeader_KeepsSection ==
    /\ IsBlockHeader
    /\ data' = Append(data, NewBlock(Strip(line)))
    /\ current_block' = Len(data) + 1
    /\ buffer_name' = <<>>
    /\ i' = SkipAfterBlock(lines, i + 1, 0)
    /\ used' = Mark(Mark(used, i, i + 1, "block"), i + 1, i', "skipped")
    /\ UNCHANGED <<lines, current_section, pc, callVars>>

\* if m_block: ...
BlockHeader ==
    /\ IsBlockHeader
    /\ data' = Append(data, NewBlock(Strip(line)))
    /\ current_block' = Len(data) + 1
    /\ current_section' = NoSection
    /\ buffer_name' = <<>>
    /\ i' = SkipAfterBlock(lines, i + 1, 0)
    /\ used' = Mark(Mark(used, i, i + 1, "block"), i + 1, i', "skipped")
    /\ UNCHANGED <<lines, pc, callVars>>

\* sem = int(m_sem.group(1)) inside try/except, None without a match: the
\* group is the one character at position p of s; int() of a decimal digit
\* is its digit value, and the except branch gives None
section_semester(s, p) ==
    IF p = 0 THEN None
    ELSE IF IsDigit(s[p]) THEN s[p] - DigitBase(s[p])
    ELSE None

\* variant: the synthetic Block is created without testing current_block
SectionHeader_AlwaysNewBlock ==
    /\ IsSectionHeader
    /\ LET m_sem == sem_re_search(line)
           sem == section_semester(line, m_sem)
           sec == NewSection(Strip(line), sem)
           blocks1 == Append(data, NewBlock(SyntheticBlockTitle))
           cb1 == Len(blocks1)
           blocks2 == AppendSection(blocks1, cb1, sec)
       IN /\ data' = blocks2
          /\ current_block' = cb1
          /\ current_section' = <<cb1, Len(blocks2[cb1].sections)>>
    /\ buffer_name' = <<>>
    /\ i' = SkipAfterSection(lines, i + 1, 0)
    /\ used' = Mark(Mark(used, i, i + 1, "section"), i + 1, i', "skipped")
    /\ UNCHANGED <<lines, pc, callVars>>

\* if _looks_like_section_title(line): ...
SectionHeader ==
    /\ IsSectionHeader
    /\ LET m_sem == sem_re_search(line)
           sem == section_semester(line, m_sem)
           sec == NewSection(Strip(line), sem)
           blocks1 == IF current_block = 0
                      THEN Append(data, NewBlock(SyntheticBlockTitle))
                      ELSE data
           cb1 == IF current_block = 0 THEN Len(blocks1) ELSE current_block
           blocks2 == AppendSection(blocks1, cb1, sec)
       IN /\ data' = blocks2
          /\ current_block' = cb1
          /\ current_section' = <<cb1, Len(blocks2[cb1].sections)>>
    /\ buffer_name' = <<>>
    /\ i' = SkipAfterSection(lines, i + 1, 0)
    /\ used' = Mark(Mark(used, i, i + 1, "section"), i + 1, i', "skipped")
    /\ UNCHANGED <<lines, pc, callVars>>

\* variant: a total line is also kept as a name fragment
TotalLine_Buffered ==
    /\ IsTotalLine
    /\ buffer_name' = Append(buffer_name, line)
    /\ i' = i + 1
    /\ used' = Mark(used, i, i + 1, "total")
    /\ UNCHANGED <<lines, data, current_block, current_section, pc, callVars>>

\* if _is_total_line(line): i += 1
TotalLine ==
    /\ IsTotalLine
    /\ i' = i + 1
    /\ used' = Mark(used, i, i + 1, "total")
    /\ UNCHANGED <<lines, data, current_block, current_section, buffer_name,
                   pc, callVars>>

\* if not _is_int_line(line): ... if triple: (a Discipline is emitted, unless
\* int() raised inside _try_parse_three_numbers)
DisciplineLine ==
    /\ IsNameLine
    /\ try_parse_three_numbers(lines, i + 1) # NoTriple
    /\ LET triple == try_parse_three_numbers(lines, i + 1)
           name == Strip(JoinSpace(Append(buffer_name, line)))
           disc == [title    |-> name,
                    credits  |-> triple.credits,
                    hours    |-> triple.hours,
                    semester |-> triple.semester]
           needSection == current_section = NoSection
           needBlock == needSection /\ current_block = 0
           blocks1 == IF needBlock
                      THEN Append(data, NewBlock(SyntheticBlockTitle))
                      ELSE data
           cb1 == IF needBlock THEN Len(blocks1) ELSE current_block
           blocks2 == IF needSection
                      THEN AppendSection(blocks1, cb1,
                               NewSection(SyntheticSectionTitle, None))
                      ELSE blocks1
           cs1 == IF needSection
                  THEN <<cb1, Len(blocks2[cb1].sections)>>
                  ELSE current_section
       IN IF triple = ValueError
          THEN /\ pc' = "raised"
               /\ buffer_name' = Append(buffer_name, line)
               /\ UNCHANGED <<i, data, current_block, current_section, used>>
          ELSE /\ data' = AppendDiscipline(blocks2, cs1, disc)
               /\ current_block' = cb1
               /\ current_section' = cs1
               /\ buffer_name' = <<>>
               /\ i' = i + 4
               /\ used' = Mark(Mark(Mark(Mark(used, i, i + 1, "name"),
                              i + 1, i + 2, "credits"),
                              i + 2, i + 3, "hours"),
                              i + 3, i + 4, "semester")
               /\ pc' = pc
    /\ UNCHANGED <<lines, callVars>>

\* variant: the fragment replaces the buffer instead of being appended
FragmentLine_Overwrites ==
    /\ IsNameLine
    /\ try_parse_three_numbers(lines, i + 1) = NoTriple
    /\ buffer_name' = <<line>>
    /\ i' = i + 1
    /\ used' = Mark(used, i, i + 1, "name")
    /\ UNCHANGED <<lines, data, current_block, current_section, pc, callVars>>

\* if not _is_int_line(line): ... else: (the fragment stays buffered)
FragmentLine ==
    /\ IsNameLine
    /\ try_parse_three_numbers(lines, i + 1) = NoTriple
    /\ buffer_name' = Append(buffer_name, line)
    /\ i' = i + 1
    /\ used' = Mark(used, i, i + 1, "name")
    /\ UNCHANGED <<lines, data, current_block, current_section, pc, callVars>>

\* variant: the stray number also clears the buffer
StrayInteger_ClearsBuffer ==
    /\ IsStrayInteger
    /\ i' = i + 1
    /\ buffer_name' = <<>>
    /\ used' = Mark(used, i, i + 1, "stray")
    /\ UNCHANGED <<lines, data, current_block, current_section, pc, callVars>>

\* variant: the final "i += 1" is missing
StrayInteger_NoAdvance ==
    /\ IsStrayInteger
    /\ i' = i
    /\ used' = Mark(used, i, i + 1, "stray")
    /\ UNCHANGED <<lines, data, current_block, current_section, buffer_name,
                   pc, callVars>>

\* the final "i += 1": a number line not consumed by a skip or a lookahead
StrayInteger ==
    /\ IsStrayInteger
    /\ i' = i + 1
    /\ used' = Mark(used, i, i + 1, "stray")
    /\ UNCHANGED <<lines, data, current_block, current_section, buffer_name,
                   pc, callVars>>

\* the loop condition i < n fails: return data
Return ==
    /\ pc = "loop"
    /\ ~(i < Len(lines))
    /\ pc' = "returned"
    /\ UNCHANGED <<lines, i, data, current_block, current_section,
                   buffer_name, used, callVars>>

Next ==
    \/ BlankLine
    \/ BlockHeader
    \/ SectionHeader
    \/ TotalLine
    \/ DisciplineLine
    \/ FragmentLine
    \/ StrayInteger
    \/ Return

Spec == Init /\ [][Next]_vars

(***************************************************************************)
(* Application of a pure function to one argument                          *)
(***************************************************************************)

\* longest string given to a line predicate
MaxLen == 6

\* "5", ARABIC-INDIC DIGIT THREE, "-", " ", NBSP
PredicateAlphabet == {53, 1635, 45, 32, 160}

RECURSIVE StringsUpTo(_, _)
StringsUpTo(alphabet, k) ==
    IF k = 0 THEN {<<>>}
    ELSE LET shorter == StringsUpTo(alphabet, k - 1)
         IN shorter \cup {Append(t, c) : t \in shorter, c \in alphabet}

\* the parser is not running
ParserIdle ==
    /\ lines = <<>>
    /\ i = 0
    /\ data = <<>>
    /\ current_block = 0
    /\ current_section = NoSection
    /\ buffer_name = <<>>
    /\ pc = "unused"
    /\ used = <<>>

InitIntLine ==
    /\ ParserIdle
    /\ PipelineIdle
    /\ ServicesIdle
    /\ fn = "idle"
    /\ arg \in StringsUpTo(PredicateAlphabet, MaxLen)
    /\ ret = FALSE

\* ret = _is_int_line(arg)
Call_is_int_line ==
    /\ fn = "idle"
    /\ fn' = "is_int_line"
    /\ ret' = is_int_line(arg)
    /\ UNCHANGED <<arg, parserVars, pipelineVars, serviceVars>>

NextIntLine == Call_is_int_line

SpecIntLine == InitIntLine /\ [][NextIntLine]_vars


(***************************************************************************)
(* Vocabulary of the properties                                            *)
(***************************************************************************)

\* all Sections / all Disciplines of a Document, in document order
RECURSIVE AllSections(_)
AllSections(blocks) ==
    IF blocks = <<>> THEN <<>>
    ELSE AllSections(SubSeq(blocks, 1, Len(blocks) - 1))
         \o blocks[Len(blocks)].sections

RECURSIVE DisciplinesOf(_)
DisciplinesOf(secs) ==
    IF secs = <<>> THEN <<>>
    ELSE DisciplinesOf(SubSeq(secs, 1, Len(secs) - 1))
         \o secs[Len(secs)].disciplines

AllDisciplines(blocks) == DisciplinesOf(AllSections(blocks))

\* the line under the cursor, stripped as the loop strips it
Here == Strip(lines[i + 1])

\* the cursor is on a line that reaches rule 5 (a name line)
AtNameLine ==
    /\ pc = "loop" /\ i < Len(lines)
    /\ Here # <<>>
    /\ ~block_re_match(Here)
    /\ ~looks_like_section_title(Here)
    /\ ~is_total_line(Here)
    /\ ~is_int_line(Here)

\* the 1-based line number q exists and holds an integer line
IntegerAt(q) == q \in 1..Len(lines) /\ is_int_line(lines[q])

\* length of the run of consecutive integer lines from 1-based line q on
IntegerRunFrom(q) ==
    LET rs == {r \in 0..Len(lines) : \A j \in 0..(r - 1) : IntegerAt(q + j)}
    IN CHOOSE r \in rs : \A r2 \in rs : r2 <= r

Min(a, b) == IF a <= b THEN a ELSE b

\* the fragments parts[1..], separated by single spaces (built from the right)
RECURSIVE SpaceSeparated(_)
SpaceSeparated(parts) ==
    IF parts = <<>> THEN <<>>
    ELSE IF Len(parts) = 1 THEN parts[1]
    ELSE SpaceSeparated(SubSeq(parts, 1, Len(parts) - 1))
         \o <<32>> \o parts[Len(parts)]

FragmentsBefore ==
    LET ms == {m \in 0..i : \A j \in 1..m : used[i + 1 - j] = "name"}
    IN CHOOSE m \in ms : \A m2 \in ms : m2 <= m

BufferResetBefore(q) ==
    \/ q = 0
    \/ q \in 1..Len(lines) /\ used[q] \in {"block", "section", "skipped", "semester"}

C2_TitleJoinsFragments ==
    [][(/\ AtNameLine
        /\ IntegerAt(i + 2) /\ IntegerAt(i + 3) /\ IntegerAt(i + 4)
        /\ BufferResetBefore(i - FragmentsBefore))
       =>
        LET m == FragmentsBefore
            parts == [j \in 1..(m + 1) |-> Strip(lines[i - m + j])]
            after == AllDisciplines(data')
        IN /\ after # <<>>
           /\ after[Len(after)].title = SpaceSeparated(parts)
           /\ buffer_name' = <<>>]_vars

\* "Metody", " glubokogo obucheniya", "4", "108 ", "<NBSP>3" parsed:
\* the title is "Metody glubokogo obucheniya"
C2_Witness ==
    /\ Len(lines) = 5
    /\ lines[1] = LineName1
    /\ lines[2] = LineName2
    /\ i = 5
    /\ buffer_name = <<>>
    /\ Len(AllDisciplines(data)) = 1
    /\ AllDisciplines(data)[1].title = LineName1 \o <<32>> \o Strip(LineName2)
    /\ AllDisciplines(data)[1].semester = 3

(***************************************************************************)
(* C3: a block-header line appends a new Block titled with that line and   *)
(* without sections, sets current_section to none, clears name_buffer and  *)
(* skips min(k, 4) lines, k the length of the run of integer lines after   *)
(* the header; nothing else is added to the Document.                      *)
(***************************************************************************)
AtBlockHeader ==
    /\ pc = "loop" /\ i < Len(lines)
    /\ Here # <<>>
    /\ block_re_match(Here)

C3_BlockHeader ==
    [][AtBlockHeader =>
        /\ data' = Append(data, [title |-> Here, sections |-> <<>>])
        /\ current_block' = Len(data')
        /\ current_section' = NoSection
        /\ buffer_name' = <<>>
        /\ i' = i + 1 + Min(IntegerRunFrom(i + 2), 4)]_vars

\* a block header followed by five integer lines: four are skipped and the
\* cursor stands on the fifth
C3_Witness ==
    /\ Len(lines) >= 6
    /\ lines[1] = LineBlock
    /\ IntegerRunFrom(2) >= 5
    /\ i = 5
    /\ data = <<[title |-> LineBlock, sections |-> <<>>]>>
    /\ used[5] = "skipped"
    /\ used[6] = "pending"


(***************************************************************************)
(* C4: a section-header line that is no block header appends a new Section *)
(* (the line as title, no disciplines) at the end of current_block's       *)
(* sections, makes it current_section, clears name_buffer and skips        *)
(* min(k, 3) lines, k the length of the run of integer lines after the     *)
(* header; the skipped integers are attached to nothing.                   *)
(***************************************************************************)
AtSectionHeader ==
    /\ pc = "loop" /\ i < Len(lines)
    /\ Here # <<>>
    /\ ~block_re_match(Here)
    /\ looks_like_section_title(Here)

\* the Section the step has opened
OpenedSection ==
    data'[current_section'[1]].sections[current_section'[2]]

C4_SectionHeader ==
    [][AtSectionHeader =>
        LET b == current_block'
            old == IF current_block = 0 THEN <<>>
                   ELSE data[current_block].sections
        IN /\ b \in 1..Len(data')
           /\ current_block # 0 => (b = current_block /\ Len(data') = Len(data))
           /\ \A k \in 1..Len(data) : k # b => data'[k] = data[k]
           /\ current_block # 0 => data'[b].title = data[b].title
           /\ Len(data'[b].sections) = Len(old) + 1
           /\ SubSeq(data'[b].sections, 1, Len(old)) = old
           /\ current_section' = <<b, Len(data'[b].sections)>>
           /\ OpenedSection.title = Here
           /\ OpenedSection.disciplines = <<>>
           /\ AllDisciplines(data') = AllDisciplines(data)
           /\ buffer_name' = <<>>
           /\ i' = i + 1 + Min(IntegerRunFrom(i + 2), 3)]_vars

\* "12 Semestr" followed by four integer lines: three are skipped, the
\* cursor stands on the fourth and the Section is empty
C4_Witness ==
    /\ Len(lines) >= 5
    /\ lines[1] = LineSemOnly
    /\ IntegerRunFrom(2) >= 4
    /\ i = 4
    /\ used[4] = "skipped"
    /\ used[5] = "pending"
    /\ Len(data) = 1
    /\ Len(data[1].sections) = 1
    /\ data[1].sections[1].title = LineSemOnly
    /\ data[1].sections[1].disciplines = <<>>
    /\ current_section = <<1, 1>>

(***************************************************************************)
(* C5: the Section opened by a header holding the "<digit> semest" pattern *)
(* has the digit of the leftmost match as semester ("Obyazatelnye          *)
(* discipliny 3 semestr" gives 3); a header recognised by a keyword only   *)
(* has no semester; no error is raised.                                    *)
(***************************************************************************)
\* position of the digit of the leftmost "<digit> semest" match, 0 if none
FirstSemesterDigit(s) ==
    IF \E p \in 1..Len(s) : SemMatchAt(s, p)
    THEN CHOOSE p \in 1..Len(s) :
            SemMatchAt(s, p) /\ \A q \in 1..(p - 1) : ~SemMatchAt(s, q)
    ELSE 0

C5_SectionSemester ==
    [][AtSectionHeader =>
        /\ pc' # "raised"
        /\ IF FirstSemesterDigit(Here) # 0
           THEN OpenedSection.semester
                    = Here[FirstSemesterDigit(Here)]
                        - DigitBase(Here[FirstSemesterDigit(Here)])
           ELSE OpenedSection.semester = None
        /\ Here = LineSectionSem => OpenedSection.semester = 3
        /\ Here = LineSemOnly => OpenedSection.semester = 2
        /\ Here = LineSectionTotal => OpenedSection.semester = None]_vars

\* both kinds of header were parsed: "... 3 semestr" gave semester 3 and
\* "Gosudarstvennaya itogovaya attestaciya" gave no semester
C5_Witness ==
    /\ pc = "returned"
    /\ \E a, b \in 1..Len(AllSections(data)) :
         /\ AllSections(data)[a].title = LineSectionSem
         /\ AllSections(data)[a].semester = 3
         /\ AllSections(data)[b].title = LineSectionTotal
         /\ AllSections(data)[b].semester = None

(***************************************************************************)
(* C6: a total line reached by rule 4 is discarded: the Document, the      *)
(* references and name_buffer are unchanged and the cursor advances by 1;  *)
(* the integer lines directly after it are never attached to an entity     *)
(* ("Itogo za semestr" and two numbers yield no Discipline).               *)
(***************************************************************************)
AtTotalLine ==
    /\ pc = "loop" /\ i < Len(lines)
    /\ Here # <<>>
    /\ ~block_re_match(Here)
    /\ ~looks_like_section_title(Here)
    /\ is_total_line(Here)

C6_TotalStep ==
    AtTotalLine =>
        /\ data' = data
        /\ current_block' = current_block
        /\ current_section' = current_section
        /\ buffer_name' = buffer_name
        /\ i' = i + 1

C6_NumbersAfterTotal ==
    \A q \in 1..Len(lines) :
        used[q] = "total" =>
            \A r \in 1..IntegerRunFrom(q + 1) :
                used[q + r] \in {"pending", "stray"}

C6_TotalDiscarded ==
    /\ [][C6_TotalStep]_vars
    /\ []C6_NumbersAfterTotal
    /\ []((Len(lines) = 3 /\ lines[1] = LineTotal /\ IntegerRunFrom(2) = 2)
            => data = <<>>)

\* "Itogo za semestr", "5", "5" parsed to the end: nothing was created
C6_Witness ==
    /\ lines = <<LineTotal>> \o NumberRun(1) \o NumberRun(1)
    /\ pc = "returned"
    /\ used = <<"total", "stray", "stray">>
    /\ data = <<>>


(***************************************************************************)
(* C7: containers are created lazily.  A section header met with no Block  *)
(* open first appends the synthetic Block "Blok"; a Discipline emitted     *)
(* with no Section open first appends the synthetic Section "Raznoe"       *)
(* (no semester) to the current Block, creating the synthetic Block too if *)
(* none is open.  No synthetic container is created in any other step.     *)
(***************************************************************************)
SyntheticBlocks(blocks) ==
    Cardinality({k \in 1..Len(blocks) : blocks[k].title = SyntheticBlockTitle})

SyntheticSections(blocks) ==
    Cardinality({k \in 1..Len(AllSections(blocks)) :
                    AllSections(blocks)[k].title = SyntheticSectionTitle})

\* the step emits a Discipline
Emits == Len(AllDisciplines(data')) > Len(AllDisciplines(data))

C7_Step ==
    /\ (AtSectionHeader /\ current_block = 0) =>
          /\ Len(data') = Len(data) + 1
          /\ data'[Len(data')].title = SyntheticBlockTitle
          /\ Len(data'[Len(data')].sections) = 1
          /\ current_block' = Len(data')
    /\ (Emits /\ current_section = NoSection) =>
          /\ SyntheticSections(data') = SyntheticSections(data) + 1
          /\ current_section' # NoSection
          /\ OpenedSection.title = SyntheticSectionTitle
          /\ OpenedSection.semester = None
          /\ Len(OpenedSection.disciplines) = 1
          /\ current_section'[2] = Len(data'[current_section'[1]].sections)
          /\ IF current_block = 0
             THEN /\ Len(data') = Len(data) + 1
                  /\ data'[Len(data')].title = SyntheticBlockTitle
                  /\ current_section'[1] = Len(data')
                  /\ current_block' = Len(data')
             ELSE /\ Len(data') = Len(data)
                  /\ current_section'[1] = current_block
                  /\ current_block' = current_block
    /\ SyntheticBlocks(data') # SyntheticBlocks(data) =>
          /\ current_block = 0
          /\ AtSectionHeader \/ (Emits /\ current_section = NoSection)
          /\ SyntheticBlocks(data') = SyntheticBlocks(data) + 1
    /\ SyntheticSections(data') # SyntheticSections(data) =>
          /\ current_section = NoSection
          /\ Emits

C7_LazyContainers == [][C7_Step]_vars

\* a block header, then a name and its three numbers: the Discipline sits in
\* a synthetic Section of the real Block, and no synthetic Block exists
C7_Witness ==
    /\ pc = "returned"
    /\ Len(data) = 1
    /\ data[1].title = LineBlock
    /\ Len(data[1].sections) = 1
    /\ data[1].sections[1].title = SyntheticSectionTitle
    /\ data[1].sections[1].semester = None
    /\ Len(data[1].sections[1].disciplines) = 1

(***************************************************************************)
(* C8: at every cursor position exactly one rule applies, the first that   *)
(* matches in the order blank, block header, section header, total line,   *)
(* name line, stray integer.  A line matching the block and the section    *)
(* pattern opens only a Block; a line matching the section and the total   *)
(* test opens a Section.                                                   *)
(***************************************************************************)
\* the rule the priority order selects for a stripped line
FirstRule(s) ==
    IF s = <<>> THEN "blank"
    ELSE IF block_re_match(s) THEN "block"
    ELSE IF looks_like_section_title(s) THEN "section"
    ELSE IF is_total_line(s) THEN "total"
    ELSE IF ~is_int_line(s) THEN "name"
    ELSE "stray"

\* number of rules the loop body can take in the current state
RulesTaken ==
    Cardinality({r \in 1..6 :
        \/ r = 1 /\ IsBlankLine
        \/ r = 2 /\ IsBlockHeader
        \/ r = 3 /\ IsSectionHeader
        \/ r = 4 /\ IsTotalLine
        \/ r = 5 /\ IsNameLine
        \/ r = 6 /\ IsStrayInteger})

C8_Step ==
    (pc = "loop" /\ i < Len(lines)) =>
        /\ RulesTaken = 1
        /\ used'[i + 1] = FirstRule(Here)
        /\ (block_re_match(Here) /\ looks_like_section_title(Here)) =>
              /\ Len(data') = Len(data) + 1
              /\ data'[Len(data')] = [title |-> Here, sections |-> <<>>]
              /\ AllSections(data') = AllSections(data)
        /\ (~block_re_match(Here) /\ looks_like_section_title(Here)
                /\ is_total_line(Here)) =>
              /\ Len(AllSections(data')) = Len(AllSections(data)) + 1
              /\ OpenedSection.title = Here

C8_RulePriority == [][C8_Step]_vars

\* "Blok 2. Praktika" opened a Block without Section, and
\* "Gosudarstvennaya itogovaya attestaciya" opened a Section in it
C8_Witness ==
    /\ Len(lines) >= 2
    /\ lines[1] = LineBlockSection
    /\ lines[2] = LineSectionTotal
    /\ i = 2
    /\ used[1] = "block"
    /\ used[2] = "section"
    /\ Len(data) = 1
    /\ data[1].title = LineBlockSection
    /\ Len(data[1].sections) = 1
    /\ data[1].sections[1].title = LineSectionTotal


(***************************************************************************)
(* C9: parse_study_plan_lines terminates without raising.  Every iteration *)
(* of the loop moves the cursor forward; the cursor never passes the input *)
(* length, so only finitely many iterations exist; in every state of the   *)
(* loop either a rule applies or the function returns (it is never stuck); *)
(* no exception leaves the function; and on return the cursor is at the    *)
(* input length.                                                           *)
(***************************************************************************)
C9_State ==
    /\ pc # "raised"
    /\ i <= Len(lines)
    /\ (pc = "loop" /\ i < Len(lines)) => RulesTaken >= 1
    /\ pc = "returned" => i >= Len(lines)

C9_Step ==
    (pc = "loop" /\ i < Len(lines)) => (i' > i /\ pc' = "loop")

TrimmedAsciiDigits(s) ==
    LET ink == {p \in 1..Len(s) : ~IsSpace(s[p])}
        first == CHOOSE p \in ink : \A q \in ink : p <= q
        last == CHOOSE p \in ink : \A q \in ink : q <= p
    IN /\ ink # {}
       /\ last - first + 1 <= 4
       /\ \A p \in first..last : s[p] \in 48..57

C10_IntLineAsciiOnly ==
    fn = "is_int_line" => (ret <=> TrimmedAsciiDigits(arg))

(***************************************************************************)
(* _clean_lines (converter.py 29-53)                                       *)
(***************************************************************************)

\* most raw lines given to _clean_lines
MaxLines == 5

\* line.replace("\xa0", " ")
ReplaceNbsp(s) == [k \in 1..Len(s) |-> IF s[k] = 160 THEN 32 ELSE s[k]]

\* the first loop: each line is trimmed; a blank line is kept only after a
\* non-blank one
RECURSIVE CollapseBlanks(_, _)
CollapseBlanks(ls, cleaned) ==
    IF ls = <<>> THEN cleaned
    ELSE LET s == Strip(ReplaceNbsp(Head(ls)))
         IN IF s = <<>>
            THEN IF cleaned # <<>> /\ cleaned[Len(cleaned)] # <<>>
                 THEN CollapseBlanks(Tail(ls), Append(cleaned, <<>>))
                 ELSE CollapseBlanks(Tail(ls), cleaned)
            ELSE CollapseBlanks(Tail(ls), Append(cleaned, s))

\* str.split(): the maximal runs of non-white-space characters
RECURSIVE Split(_)
Split(s) ==
    LET t == LStrip(s)
    IN IF t = <<>> THEN <<>>
       ELSE LET ends == {k \in 1..Len(t) : IsSpace(t[k])}
                stop == IF ends = {} THEN Len(t) + 1
                        ELSE CHOOSE k \in ends : \A m \in ends : k <= m
            IN <<SubSeq(t, 1, stop - 1)>> \o Split(SubSeq(t, stop, Len(t)))

\* variant: every one-character token is noise
is_noise_token_AnyChar(token) == Len(token) = 1

is_noise_token(token) == Len(token) = 1 /\ IsAlpha(token[1])

\* tokens and all(is_noise_token(t) for t in tokens)
IsNoiseLine(s) ==
    LET tokens == Split(s)
    IN /\ tokens # <<>>
       /\ \A k \in 1..Len(tokens) : is_noise_token(tokens[k])

\* the second loop: blank lines are kept, noise lines are dropped
DropNoise(cleaned) ==
    SelectSeq(cleaned, LAMBDA s : s = <<>> \/ ~IsNoiseLine(s))

\* "\n".join(result_lines)
RECURSIVE JoinLines(_)
JoinLines(ls) ==
    IF ls = <<>> THEN <<>>
    ELSE IF Len(ls) = 1 THEN ls[1]
    ELSE ls[1] \o <<10>> \o JoinLines(Tail(ls))

\* _clean_lines(lines): the cleaned text, ending with one "\n"
clean_lines(ls) ==
    Append(Strip(JoinLines(DropNoise(CollapseBlanks(ls, <<>>)))), 10)

\* the characters str.splitlines() breaks a line at ("\r\n" counts once)
IsLineBreak(c) == c \in {10, 11, 12, 13, 28, 29, 30, 133, 8232, 8233}

\* str.splitlines(): the lines of a text without their line breaks; a break
\* at the very end opens no further line
RECURSIVE SplitLines(_)
SplitLines(str) ==
    IF str = <<>> THEN <<>>
    ELSE LET breaks == {k \in 1..Len(str) : IsLineBreak(str[k])}
         IN IF breaks = {} THEN <<str>>
            ELSE LET b == CHOOSE k \in breaks : \A m \in breaks : k <= m
                     e == IF /\ str[b] = 13
                             /\ b < Len(str)
                             /\ str[b + 1] = 10
                          THEN b + 1 ELSE b
                 IN <<SubSeq(str, 1, b - 1)>>
                    \o SplitLines(SubSeq(str, e + 1, Len(str)))

\* raw lines: blank, NBSP and a space, "x" (noise), NBSP "x" NBSP "y" " "
\* (noise), "ab", " ab", "5"
RawBlank == <<>>
RawNbsp == <<160, 32>>
RawNoise == <<120>>
RawNoisePair == <<160, 120, 160, 121, 32>>
RawWord == <<97, 98>>
RawWordPadded == <<32, 97, 98>>
RawDigit == <<53>>
RawLines ==
    {RawBlank, RawNbsp, RawNoise, RawNoisePair, RawWord, RawWordPadded,
     RawDigit}

RECURSIVE LineSeqsUpTo(_, _)
LineSeqsUpTo(pool, k) ==
    IF k = 0 THEN {<<>>}
    ELSE LET shorter == LineSeqsUpTo(pool, k - 1)
         IN shorter \cup {Append(t, l) : t \in shorter, l \in pool}

InitCleanLines ==
    /\ ParserIdle
    /\ PipelineIdle
    /\ ServicesIdle
    /\ fn = "idle"
    /\ arg \in LineSeqsUpTo(RawLines, MaxLines)
    /\ ret = <<>>

\* ret = _clean_lines(arg)
Call_clean_lines ==
    /\ fn = "idle"
    /\ fn' = "clean_lines"
    /\ ret' = clean_lines(arg)
    /\ UNCHANGED <<arg, parserVars, pipelineVars, serviceVars>>

\* ret = _clean_lines(ret.splitlines()): the callers' way to read the text
\* back as lines (converter.py 75, 280)
Call_clean_lines_again ==
    /\ fn = "clean_lines"
    /\ fn' = "clean_lines_again"
    /\ ret' = clean_lines(SplitLines(ret))
    /\ UNCHANGED <<arg, parserVars, pipelineVars, serviceVars>>

NextCleanLines == Call_clean_lines \/ Call_clean_lines_again

SpecCleanLines == InitCleanLines /\ [][NextCleanLines]_vars

(***************************************************************************)
(* C11: _clean_lines is idempotent                                         *)
(***************************************************************************)

\* C11: cleaning the lines of a cleaned text returns the same text: the
\* second application of _clean_lines changes nothing.
C11_CleanIdempotent ==
    [][fn = "clean_lines" /\ fn' = "clean_lines_again" => ret' = ret]_vars

(***************************************************************************)
(* C12: no blank run and no blank line at either end of the cleaned text   *)
(***************************************************************************)

\* the text without its final "\n", as lines
OutputLines(str) == SplitLines(SubSeq(str, 1, Len(str) - 1))

\* C12: the cleaned text has no two consecutive blank lines and, unless it
\* is the empty text, neither starts nor ends with a blank line.
C12_NoBlankRuns ==
    fn = "clean_lines" =>
        LET out == OutputLines(ret)
        IN /\ \A k \in 1..(Len(out) - 1) : ~(out[k] = <<>> /\ out[k + 1] = <<>>)
           /\ out # <<>> => (out[1] # <<>> /\ out[Len(out)] # <<>>)

(***************************************************************************)
(* C13: the cleaned text keeps exactly the non-blank, non-noise lines      *)
(***************************************************************************)

\* NBSP replaced and trimmed
Trimmed(s) == Strip(ReplaceNbsp(s))

\* every white-space separated token is one alphabetic character: the line
\* has a letter, only letters and white space, and no two adjacent letters
AllSingleLetters(s) ==
    /\ \E k \in 1..Len(s) : IsAlpha(s[k])
    /\ \A k \in 1..Len(s) : IsAlpha(s[k]) \/ IsSpace(s[k])
    /\ \A k \in 1..(Len(s) - 1) : IsSpace(s[k]) \/ IsSpace(s[k + 1])

RECURSIVE KeptLines(_)
KeptLines(ls) ==
    IF ls = <<>> THEN <<>>
    ELSE LET s == Trimmed(Head(ls))
         IN IF s # <<>> /\ ~AllSingleLetters(s)
            THEN <<s>> \o KeptLines(Tail(ls))
            ELSE KeptLines(Tail(ls))

\* C13: the non-blank lines of the cleaned text are the trimmed non-blank,
\* non-noise input lines, in input order.
C13_KeepsContentLines ==
    fn = "clean_lines" =>
        SelectSeq(OutputLines(ret), LAMBDA s : s # <<>>) = KeptLines(arg)

\* a noise line between two kept lines, a padded line and a digit line
C13_Witness ==
    /\ fn = "clean_lines"
    /\ arg = <<RawWordPadded, RawNoisePair, RawDigit, RawBlank, RawNoise>>
    /\ ret = <<97, 98, 10, 53, 10>>

(***************************************************************************)
(* Serializer: xml_escape, pdf_to_xml's document, dict_to_structured_xml   *)
(* (converter.py 98-117, 246-272)                                          *)
(***************************************************************************)

\* s.replace(c, rep) for a one-character c: every occurrence of c becomes
\* rep (computed on the two halves of s, which keeps the recursion shallow)
RECURSIVE ReplaceChar(_, _, _)
ReplaceChar(s, c, rep) ==
    IF s = <<>> THEN <<>>
    ELSE IF Len(s) = 1 THEN (IF s[1] = c THEN rep ELSE s)
    ELSE LET half == Len(s) \div 2
         IN ReplaceChar(SubSeq(s, 1, half), c, rep)
            \o ReplaceChar(SubSeq(s, half + 1, Len(s)), c, rep)

\* "&amp;" "&lt;" "&gt;" "&quot;" "&apos;"
EntityAmp == <<38, 97, 109, 112, 59>>
EntityLt == <<38, 108, 116, 59>>
EntityGt == <<38, 103, 116, 59>>
EntityQuot == <<38, 113, 117, 111, 116, 59>>
EntityApos == <<38, 97, 112, 111, 115, 59>>

\* variant: "&" is replaced after the other four characters
xml_escape_AmpLast(s) ==
    ReplaceChar(
        ReplaceChar(
            ReplaceChar(
                ReplaceChar(
                    ReplaceChar(s, 60, EntityLt),
                    62, EntityGt),
                34, EntityQuot),
            39, EntityApos),
        38, EntityAmp)

\* the five replace calls, "&" first
xml_escape(s) ==
    ReplaceChar(
        ReplaceChar(
            ReplaceChar(
                ReplaceChar(
                    ReplaceChar(s, 38, EntityAmp),
                    60, EntityLt),
                62, EntityGt),
            34, EntityQuot),
        39, EntityApos)

\* <?xml version="1.0" encoding="UTF-8"?>
XmlDeclaration ==
    <<60, 63, 120, 109, 108, 32, 118, 101, 114, 115, 105, 111, 110, 61, 34,
      49, 46, 48, 34, 32, 101, 110, 99, 111, 100, 105, 110, 103, 61, 34, 85,
      84, 70, 45, 56, 34, 63, 62>>

\* <document>  </document>
DocumentOpen == <<60, 100, 111, 99, 117, 109, 101, 110, 116, 62>>
DocumentClose == <<60, 47, 100, 111, 99, 117, 109, 101, 110, 116, 62>>

\* the f-string of pdf_to_xml
document_xml(content) ==
    XmlDeclaration \o <<10>> \o DocumentOpen \o <<10>>
    \o xml_escape(content) \o <<10>> \o DocumentClose \o <<10>>

\* str(n) of a non-negative int, as an f-string formats it
RECURSIVE IntToStr(_)
IntToStr(n) ==
    IF n < 10 THEN <<48 + n>>
    ELSE IntToStr(n \div 10) \o <<48 + (n % 10)>>

\* name="value"
Attribute(name, value) == name \o <<61, 34>> \o value \o <<34>>

\* title  credits  hours  semester
NameTitle == <<116, 105, 116, 108, 101>>
NameCredits == <<99, 114, 101, 100, 105, 116, 115>>
NameHours == <<104, 111, 117, 114, 115>>
NameSemester == <<115, 101, 109, 101, 115, 116, 101, 114>>

\* six spaces and "<discipline "
DisciplineOpen ==
    <<32, 32, 32, 32, 32, 32, 60, 100, 105, 115, 99, 105, 112, 108, 105, 110,
      101, 32>>

\* variant: a field is written only if it is truthy ("if credits:")
discipline_element_Truthy(disc) ==
    LET attrs ==
            <<Attribute(NameTitle, xml_escape(disc.title))>>
            \o (IF disc.credits # None /\ disc.credits # 0
                THEN <<Attribute(NameCredits, IntToStr(disc.credits))>>
                ELSE <<>>)
            \o (IF disc.hours # None /\ disc.hours # 0
                THEN <<Attribute(NameHours, IntToStr(disc.hours))>>
                ELSE <<>>)
            \o (IF disc.semester # None /\ disc.semester # 0
                THEN <<Attribute(NameSemester, IntToStr(disc.semester))>>
                ELSE <<>>)
    IN DisciplineOpen \o JoinSpace(attrs) \o <<47, 62>>

\* the line written for one Discipline
discipline_element(disc) ==
    LET attrs ==
            <<Attribute(NameTitle, xml_escape(disc.title))>>
            \o (IF disc.credits # None
                THEN <<Attribute(NameCredits, IntToStr(disc.credits))>>
                ELSE <<>>)
            \o (IF disc.hours # None
                THEN <<Attribute(NameHours, IntToStr(disc.hours))>>
                ELSE <<>>)
            \o (IF disc.semester # None
                THEN <<Attribute(NameSemester, IntToStr(disc.semester))>>
                ELSE <<>>)
    IN DisciplineOpen \o JoinSpace(attrs) \o <<47, 62>>

RECURSIVE discipline_elements(_)
discipline_elements(discs) ==
    IF discs = <<>> THEN <<>>
    ELSE <<discipline_element(Head(discs))>>
         \o discipline_elements(Tail(discs))

\* four spaces and "<section title="  /  four spaces and "</section>"
SectionOpen ==
    <<32, 32, 32, 32, 60, 115, 101, 99, 116, 105, 111, 110, 32>>
SectionClose ==
    <<32, 32, 32, 32, 60, 47, 115, 101, 99, 116, 105, 111, 110, 62>>

\* the lines written for one Section
section_element(section) ==
    LET sem_attr == IF section.semester # None
                    THEN <<32>> \o Attribute(NameSemester,
                                             IntToStr(section.semester))
                    ELSE <<>>
    IN <<SectionOpen \o Attribute(NameTitle, xml_escape(section.title))
         \o sem_attr \o <<62>>>>
       \o discipline_elements(section.disciplines)
       \o <<SectionClose>>

RECURSIVE section_elements(_)
section_elements(secs) ==
    IF secs = <<>> THEN <<>>
    ELSE section_element(Head(secs)) \o section_elements(Tail(secs))

\* two spaces and "<block "  /  two spaces and "</block>"
BlockOpen == <<32, 32, 60, 98, 108, 111, 99, 107, 32>>
BlockClose == <<32, 32, 60, 47, 98, 108, 111, 99, 107, 62>>

\* the lines written for one Block
block_element(block) ==
    <<BlockOpen \o Attribute(NameTitle, xml_escape(block.title)) \o <<62>>>>
    \o section_elements(block.sections)
    \o <<BlockClose>>

RECURSIVE block_elements(_)
block_elements(blocks) ==
    IF blocks = <<>> THEN <<>>
    ELSE block_element(Head(blocks)) \o block_elements(Tail(blocks))

\* <study_plan>  </study_plan>
StudyPlanOpen == <<60, 115, 116, 117, 100, 121, 95, 112, 108, 97, 110, 62>>
StudyPlanClose ==
    <<60, 47, 115, 116, 117, 100, 121, 95, 112, 108, 97, 110, 62>>

\* variant: the last line is "</study_plan>" without "\n"
dict_to_structured_xml_NoNewline(blocks) ==
    JoinLines(<<XmlDeclaration, StudyPlanOpen>>
              \o block_elements(blocks)
              \o <<StudyPlanClose>>)

\* dict_to_structured_xml(data), blocks being data["blocks"]
dict_to_structured_xml(blocks) ==
    JoinLines(<<XmlDeclaration, StudyPlanOpen>>
              \o block_elements(blocks)
              \o <<Append(StudyPlanClose, 10)>>)

\* longest string given to xml_escape
MaxEscLen == 4

\* & < > " ' l t ;
EscapeAlphabet == {38, 60, 62, 34, 39, 108, 116, 59}

\* a Document whose Block, Section and Discipline all have the title t
TitledDocument(t) ==
    <<[title |-> t,
       sections |-> <<[title |-> t,
                       semester |-> None,
                       disciplines |-> <<[title |-> t,
                                          credits |-> None,
                                          hours |-> None,
                                          semester |-> None]>>]>>]>>

InitEscape ==
    /\ ParserIdle
    /\ PipelineIdle
    /\ ServicesIdle
    /\ fn = "idle"
    /\ arg \in StringsUpTo(EscapeAlphabet, MaxEscLen)
    /\ ret = <<>>

\* ret = xml_escape(arg)
Call_xml_escape ==
    /\ fn = "idle"
    /\ fn' = "xml_escape"
    /\ ret' = xml_escape(arg)
    /\ UNCHANGED <<arg, parserVars, pipelineVars, serviceVars>>

\* ret = dict_to_structured_xml(data), every title of data being arg
Call_dict_to_structured_xml_titles ==
    /\ fn = "idle"
    /\ fn' = "dict_to_structured_xml"
    /\ ret' = dict_to_structured_xml(TitledDocument(arg))
    /\ UNCHANGED <<arg, parserVars, pipelineVars, serviceVars>>

\* ret = the xml text pdf_to_xml builds from the content arg
Call_document_xml ==
    /\ fn = "idle"
    /\ fn' = "pdf_to_xml"
    /\ ret' = document_xml(arg)
    /\ UNCHANGED <<arg, parserVars, pipelineVars, serviceVars>>

NextEscape ==
    \/ Call_xml_escape
    \/ Call_dict_to_structured_xml_titles
    \/ Call_document_xml

SpecEscape == InitEscape /\ [][NextEscape]_vars

(***************************************************************************)
(* Reading XML text back (vocabulary of the properties)                    *)
(***************************************************************************)

StartsWith(s, prefix) ==
    /\ Len(prefix) <= Len(s)
    /\ SubSeq(s, 1, Len(prefix)) = prefix

Entities ==
    {<<38, EntityAmp>>, <<60, EntityLt>>, <<62, EntityGt>>,
     <<34, EntityQuot>>, <<39, EntityApos>>}

\* no < > " ' and every & starts an entity
WellEscaped(s) ==
    /\ \A k \in 1..Len(s) : s[k] \notin {60, 62, 34, 39}
    /\ \A k \in 1..Len(s) :
           s[k] = 38 =>
               \E e \in Entities : StartsWith(SubSeq(s, k, Len(s)), e[2])

\* the entities replaced back, left to right
RECURSIVE Unescape(_)
Unescape(s) ==
    IF s = <<>> THEN <<>>
    ELSE IF \E e \in Entities : StartsWith(s, e[2])
    THEN LET e == CHOOSE x \in Entities : StartsWith(s, x[2])
         IN <<e[1]>> \o Unescape(SubSeq(s, Len(e[2]) + 1, Len(s)))
    ELSE <<Head(s)>> \o Unescape(Tail(s))

IsNameChar(c) == c \in 97..122 \/ c = 95

\* the length of the longest prefix of s made of name characters
NameLength(s) ==
    LET stops == {k \in 1..Len(s) : ~IsNameChar(s[k])}
    IN IF stops = {} THEN Len(s)
       ELSE (CHOOSE k \in stops : \A m \in stops : k <= m) - 1

\* the attributes  name="value"  at the start of s, each after one space,
\* and what follows them
RECURSIVE ReadAttributes(_)
ReadAttributes(s) ==
    IF s = <<>> \/ s[1] # 32 THEN [attrs |-> <<>>, rest |-> s]
    ELSE LET t == Tail(s)
             n == NameLength(t)
             afterName == SubSeq(t, n + 1, Len(t))
             quotes == {k \in 3..Len(afterName) : afterName[k] = 34}
         IN IF n = 0 \/ ~StartsWith(afterName, <<61, 34>>) \/ quotes = {}
            THEN [attrs |-> <<>>, rest |-> s]
            ELSE LET q == CHOOSE k \in quotes : \A m \in quotes : k <= m
                     more == ReadAttributes(
                                 SubSeq(afterName, q + 1, Len(afterName)))
                 IN [attrs |-> <<<<SubSeq(t, 1, n),
                                   SubSeq(afterName, 3, q - 1)>>>>
                               \o more.attrs,
                     rest |-> more.rest]

\* one line of XML text read as a tag: its indentation, kind ("open",
\* "empty", "close", or "bad" if it is not a well-formed tag), name and
\* attributes
ReadTag(str) ==
    LET t == LStrip(str)
        indent == Len(str) - Len(t)
        bad == [indent |-> indent, kind |-> "bad", name |-> <<>>,
                attrs |-> <<>>]
    IN IF StartsWith(t, <<60, 47>>)
       THEN LET u == SubSeq(t, 3, Len(t))
                n == NameLength(u)
            IN IF n > 0 /\ SubSeq(u, n + 1, Len(u)) = <<62>>
               THEN [indent |-> indent, kind |-> "close",
                     name |-> SubSeq(u, 1, n), attrs |-> <<>>]
               ELSE bad
       ELSE IF StartsWith(t, <<60>>)
       THEN LET u == Tail(t)
                n == NameLength(u)
                r == ReadAttributes(SubSeq(u, n + 1, Len(u)))
                ok == /\ n > 0
                      /\ r.rest \in {<<62>>, <<47, 62>>}
                      /\ \A k \in 1..Len(r.attrs) : WellEscaped(r.attrs[k][2])
            IN IF ok
               THEN [indent |-> indent,
                     kind |-> IF r.rest = <<62>> THEN "open" ELSE "empty",
                     name |-> SubSeq(u, 1, n), attrs |-> r.attrs]
               ELSE bad
       ELSE bad

\* block  section  discipline
NameBlock == <<98, 108, 111, 99, 107>>
NameSection == <<115, 101, 99, 116, 105, 111, 110>>
NameDiscipline == <<100, 105, 115, 99, 105, 112, 108, 105, 110, 101>>

(***************************************************************************)
(* C14: xml_escape                                                         *)
(***************************************************************************)

\* the title attribute of the tag read from a line is the escaped form of t
TitleIs(str, t) ==
    LET tag == ReadTag(str)
    IN /\ tag.kind \in {"open", "empty"}
       /\ tag.attrs = <<<<NameTitle, tag.attrs[1][2]>>>>
       /\ Unescape(tag.attrs[1][2]) = t

\* C14: the result of xml_escape has none of < > " ', each of its & starts
\* one of the five entities, and replacing the entities back gives the
\* argument; the titles written by dict_to_structured_xml and the text
\* written by pdf_to_xml are escaped in this way.
C14_EscapeRoundTrip ==
    /\ fn = "xml_escape" =>
           /\ WellEscaped(ret)
           /\ Unescape(ret) = arg
    /\ fn = "dict_to_structured_xml" =>
           LET out == SplitLines(ret)
           IN /\ Len(out) = 8
              /\ TitleIs(out[3], arg)
              /\ TitleIs(out[4], arg)
              /\ TitleIs(out[5], arg)
    /\ fn = "pdf_to_xml" =>
           LET head == XmlDeclaration \o <<10>> \o DocumentOpen \o <<10>>
               tail == <<10>> \o DocumentClose \o <<10>>
               body == SubSeq(ret, Len(head) + 1, Len(ret) - Len(tail))
           IN /\ ret = head \o body \o tail
              /\ WellEscaped(body)
              /\ Unescape(body) = arg

\* "&lt;" escaped to "&amp;lt;": an entity in the argument is not read as
\* an escape
C14_Witness ==
    /\ fn = "xml_escape"
    /\ arg = EntityLt
    /\ ret = <<38, 97, 109, 112, 59, 108, 116, 59>>

(***************************************************************************)
(* dict_to_structured_xml applied to a Document                            *)
(***************************************************************************)

\* most Blocks, Sections and Disciplines of a Document, taken together
MaxEntities == 4

\* titles: "B", "S&", "<D>"
TitleOfBlock == <<66>>
TitleOfSection == <<83, 38>>
TitleOfDiscipline == <<60, 68, 62>>

\* the Sections and Disciplines a Document is made of
SomeSections ==
    {NewSection(TitleOfSection, sem) : sem \in {None, 0, 3}}
SomeDisciplines ==
    {[title |-> TitleOfDiscipline, credits |-> c, hours |-> h, semester |-> s] :
        c \in {None, 0, 5}, h \in {None, 144}, s \in {None, 0}}

\* the Documents d extended by one entity at its end
Extensions(d) ==
    {Append(d, NewBlock(TitleOfBlock))}
    \cup (IF d = <<>> THEN {}
          ELSE {AppendSection(d, Len(d), sec) : sec \in SomeSections})
    \cup (IF d = <<>> \/ d[Len(d)].sections = <<>> THEN {}
          ELSE {AppendDiscipline(d, <<Len(d), Len(d[Len(d)].sections)>>, disc) :
                    disc \in SomeDisciplines})

RECURSIVE DocumentsUpTo(_)
DocumentsUpTo(k) ==
    IF k = 0 THEN {<<>>}
    ELSE LET smaller == DocumentsUpTo(k - 1)
         IN smaller \cup UNION {Extensions(d) : d \in smaller}

InitXml ==
    /\ ParserIdle
    /\ PipelineIdle
    /\ ServicesIdle
    /\ fn = "idle"
    /\ arg \in DocumentsUpTo(MaxEntities)
    /\ ret = <<>>

\* ret = dict_to_structured_xml({"blocks": arg})
Call_dict_to_structured_xml ==
    /\ fn = "idle"
    /\ fn' = "dict_to_structured_xml"
    /\ ret' = dict_to_structured_xml(arg)
    /\ UNCHANGED <<arg, parserVars, pipelineVars, serviceVars>>

NextXml == Call_dict_to_structured_xml

SpecXml == InitXml /\ [][NextXml]_vars

(***************************************************************************)
(* C15: one element per entity, attributes exactly for the present fields  *)
(***************************************************************************)

\* the fields of an entity that are present, as <<attribute name, value>>
PresentFields(fields) == SelectSeq(fields, LAMBDA f : f[2] # None)

\* the tags a Document is to be written as, in document order
ExpectedDiscipline(d) ==
    [indent |-> 6, kind |-> "empty", name |-> NameDiscipline,
     title |-> d.title,
     fields |-> PresentFields(<<<<NameCredits, d.credits>>,
                                <<NameHours, d.hours>>,
                                <<NameSemester, d.semester>>>>)]

RECURSIVE ExpectedDisciplines(_)
ExpectedDisciplines(discs) ==
    IF discs = <<>> THEN <<>>
    ELSE <<ExpectedDiscipline(Head(discs))>>
         \o ExpectedDisciplines(Tail(discs))

RECURSIVE ExpectedSections(_)
ExpectedSections(secs) ==
    IF secs = <<>> THEN <<>>
    ELSE LET s == Head(secs)
         IN <<[indent |-> 4, kind |-> "open", name |-> NameSection,
               title |-> s.title,
               fields |-> PresentFields(<<<<NameSemester, s.semester>>>>)]>>
            \o ExpectedDisciplines(s.disciplines)
            \o <<[indent |-> 4, kind |-> "close", name |-> NameSection,
                  title |-> <<>>, fields |-> <<>>]>>
            \o ExpectedSections(Tail(secs))

RECURSIVE ExpectedBlocks(_)
ExpectedBlocks(blocks) ==
    IF blocks = <<>> THEN <<>>
    ELSE LET b == Head(blocks)
         IN <<[indent |-> 2, kind |-> "open", name |-> NameBlock,
               title |-> b.title, fields |-> <<>>]>>
            \o ExpectedSections(b.sections)
            \o <<[indent |-> 2, kind |-> "close", name |-> NameBlock,
                  title |-> <<>>, fields |-> <<>>]>>
            \o ExpectedBlocks(Tail(blocks))

\* a decimal numeral without sign: ASCII digits, no leading zero but "0"
IsNumeral(s) ==
    /\ s # <<>>
    /\ \A k \in 1..Len(s) : s[k] \in 48..57
    /\ Len(s) > 1 => s[1] # 48

\* the tag read from the text is the expected one
TagMatches(tag, e) ==
    /\ tag.indent = e.indent
    /\ tag.kind = e.kind
    /\ tag.name = e.name
    /\ IF e.kind = "close" THEN tag.attrs = <<>>
       ELSE /\ Len(tag.attrs) = 1 + Len(e.fields)
            /\ tag.attrs[1][1] = NameTitle
            /\ Unescape(tag.attrs[1][2]) = e.title
            /\ \A k \in 1..Len(e.fields) :
                   /\ tag.attrs[k + 1][1] = e.fields[k][1]
                   /\ IsNumeral(tag.attrs[k + 1][2])
                   /\ DigitsValue(tag.attrs[k + 1][2]) = e.fields[k][2]

\* C15: the text has one block, section and discipline element per Block,
\* Section and Discipline, nested and in Document order, and each element
\* has, after its title, exactly the attributes of its present fields with
\* the stored values (0 is written as "0").
C15_ElementsMatchDocument ==
    fn = "dict_to_structured_xml" =>
        LET out == SplitLines(ret)
            expected == ExpectedBlocks(arg)
        IN /\ Len(out) = Len(expected) + 3
           /\ out[1] = XmlDeclaration
           /\ out[2] = StudyPlanOpen
           /\ out[Len(out)] = StudyPlanClose
           /\ \A k \in 1..Len(expected) :
                  TagMatches(ReadTag(out[k + 2]), expected[k])

\* a Section with semester 0 whose Discipline has credits 0 and no hours,
\* then a Section without semester
C15_Witness ==
    /\ fn = "dict_to_structured_xml"
    /\ Len(arg) = 1
    /\ Len(arg[1].sections) = 2
    /\ arg[1].sections[1].semester = 0
    /\ arg[1].sections[2].semester = None
    /\ Len(arg[1].sections[1].disciplines) = 1
    /\ arg[1].sections[1].disciplines[1].credits = 0
    /\ arg[1].sections[1].disciplines[1].hours = None
    /\ arg[1].sections[1].disciplines[1].semester = 0
    /\ Len(SplitLines(ret)) = 10

(***************************************************************************)
(* pdf_to_txt, pdf_to_xml, pdf_to_structured_xml (converter.py 78-117,     *)
(* 275-286)                                                                *)
(***************************************************************************)

\* most calls of the pdf_to_* functions in one run (main makes three)
MaxCalls == 3

\* the lines a backend reads from a PDF: a plan with a block header, a
\* section header, a total line, a two-line name with its three numbers, a
\* blank line and a further number; and a PDF without text
RawPlan ==
    <<LineBlock, LineSectionSem, LineTotal, LineName1, LineName2,
      NumberPool[1], NumberPool[2], NumberPool[3], LineBlank, NumberPool[4]>>
RawEmpty == <<>>

\* the PDFs a call may be given (all with the same stem): pdf_path
Pdfs == {RawPlan, RawEmpty}

\* what extract_text_pymupdf / extract_text_pdfminer return: _clean_lines
\* of the lines read; a text file left by an earlier run holds one of them
ExtractedTexts == {clean_lines(RawPlan), clean_lines(RawEmpty)}

InitPipeline ==
    /\ ParserIdle
    /\ fn = "idle"
    /\ arg = <<>>
    /\ ret = "none"
    /\ fitz \in BOOLEAN
    /\ pdfminer_extract_text \in BOOLEAN
    /\ files \in [txt : {NoFile} \cup ExtractedTexts,
                  xml : {NoFile},
                  structured : {NoFile}]
    /\ text = NoText
    /\ ppc = "idle"
    /\ calls = 0
    /\ attempts = <<>>
    /\ writes = <<>>
    /\ ServicesIdle

\* a call of f on one of the PDFs begins; whereTo is the first position
\* inside it
Enter(f, whereTo) ==
    /\ arg' \in Pdfs
    /\ calls' = calls + 1
    /\ fn' = f
    /\ ret' = "running"
    /\ text' = NoText
    /\ attempts' = <<>>
    /\ writes' = <<>>
    /\ ppc' = whereTo
    /\ UNCHANGED <<fitz, pdfminer_extract_text, files, parserVars,
                   serviceVars>>

\* pdf_to_txt(pdf_path): text = None
Call_pdf_to_txt ==
    /\ ppc = "idle"
    /\ calls < MaxCalls
    /\ Enter("pdf_to_txt", "primary")

\* variant: pdf_to_xml extracts the text of pdf_path on every call
Call_pdf_to_xml_AlwaysExtracts ==
    /\ ppc = "idle"
    /\ calls < MaxCalls
    /\ Enter("pdf_to_xml", "primary")

\* pdf_to_xml(pdf_path): if not txt_path.exists(): pdf_to_txt(...)
Call_pdf_to_xml ==
    /\ ppc = "idle"
    /\ calls < MaxCalls
    /\ Enter("pdf_to_xml", IF files.txt = NoFile THEN "primary" ELSE "read")

\* pdf_to_structured_xml(pdf_path): if not txt_path.exists(): pdf_to_txt(...)
Call_pdf_to_structured_xml ==
    /\ ppc = "idle"
    /\ calls < MaxCalls
    /\ Enter("pdf_to_structured_xml",
             IF files.txt = NoFile THEN "primary" ELSE "read")

\* if fitz is not None: try: text = extract_text_pymupdf(pdf_path)
\* except Exception: text = None (arg holds the lines of pdf_path)
TryPyMuPDF ==
    /\ ppc = "primary"
    /\ fitz
    /\ \E r \in {clean_lines(arg), NoText} :
           /\ text' = r
           /\ attempts' = Append(attempts,
                  <<"pymupdf", IF r = NoText THEN "raised" ELSE "ok">>)
    /\ ppc' = "secondary"
    /\ UNCHANGED <<fn, arg, ret, fitz, pdfminer_extract_text, files, calls,
                   writes, parserVars,
                   serviceVars>>

\* fitz is None: the first try block is not entered
SkipPyMuPDF ==
    /\ ppc = "primary"
    /\ ~fitz
    /\ ppc' = "secondary"
    /\ UNCHANGED <<fn, arg, ret, fitz, pdfminer_extract_text, files, text,
                   calls, attempts, writes, parserVars,
                   serviceVars>>

\* variant: the second backend is tried whenever it is available
NeedsSecondary_Always == pdfminer_extract_text

\* text is None and pdfminer_extract_text is not None
NeedsSecondary == text = NoText /\ pdfminer_extract_text

\* try: text = extract_text_pdfminer(pdf_path) except Exception: text = None
TryPdfminer ==
    /\ ppc = "secondary"
    /\ NeedsSecondary
    /\ \E r \in {clean_lines(arg), NoText} :
           /\ text' = r
           /\ attempts' = Append(attempts,
                  <<"pdfminer", IF r = NoText THEN "raised" ELSE "ok">>)
    /\ ppc' = "check"
    /\ UNCHANGED <<fn, arg, ret, fitz, pdfminer_extract_text, files, calls,
                   writes, parserVars,
                   serviceVars>>

\* the second try block is not entered
SkipPdfminer ==
    /\ ppc = "secondary"
    /\ ~NeedsSecondary
    /\ ppc' = "check"
    /\ UNCHANGED <<fn, arg, ret, fitz, pdfminer_extract_text, files, text,
                   calls, attempts, writes, parserVars,
                   serviceVars>>

\* variant: an empty text file is written before the error is raised
RaiseNoText_WritesFile ==
    /\ ppc = "check"
    /\ text = NoText
    /\ files' = [files EXCEPT !.txt = <<>>]
    /\ writes' = Append(writes, "txt")
    /\ ppc' = "idle"
    /\ ret' = "raised"
    /\ UNCHANGED <<fn, arg, fitz, pdfminer_extract_text, text, calls,
                   attempts, parserVars,
                   serviceVars>>

\* if text is None: raise RuntimeError(...); no caller catches it
RaiseNoText ==
    /\ ppc = "check"
    /\ text = NoText
    /\ ppc' = "idle"
    /\ ret' = "raised"
    /\ UNCHANGED <<fn, arg, fitz, pdfminer_extract_text, files, text, calls,
                   attempts, writes, parserVars,
                   serviceVars>>

\* txt_path.write_text(text); return txt_path
WriteText ==
    /\ ppc = "check"
    /\ text # NoText
    /\ files' = [files EXCEPT !.txt = text]
    /\ writes' = Append(writes, "txt")
    /\ IF fn = "pdf_to_txt"
       THEN ppc' = "idle" /\ ret' = "returned"
       ELSE ppc' = "read" /\ ret' = ret
    /\ UNCHANGED <<fn, arg, fitz, pdfminer_extract_text, text, calls,
                   attempts, parserVars,
                   serviceVars>>

\* pdf_to_xml: content = txt_path.read_text(); xml_path.write_text(xml)
WriteXml ==
    /\ ppc = "read"
    /\ fn = "pdf_to_xml"
    /\ files' = [files EXCEPT !.xml = document_xml(files.txt)]
    /\ writes' = Append(writes, "xml")
    /\ ppc' = "idle"
    /\ ret' = "returned"
    /\ UNCHANGED <<fn, arg, fitz, pdfminer_extract_text, text, calls,
                   attempts, parserVars,
                   serviceVars>>

\* pdf_to_structured_xml: raw = txt_path.read_text();
\* data = parse_study_plan_lines(raw.splitlines()) begins
ReadAndParse ==
    /\ ppc = "read"
    /\ fn = "pdf_to_structured_xml"
    /\ lines' = SplitLines(files.txt)
    /\ i' = 0
    /\ data' = <<>>
    /\ current_block' = 0
    /\ current_section' = NoSection
    /\ buffer_name' = <<>>
    /\ pc' = "loop"
    /\ used' = [j \in 1..Len(lines') |-> "pending"]
    /\ ppc' = "parse"
    /\ UNCHANGED <<fn, arg, ret, fitz, pdfminer_extract_text, files, text,
                   calls, attempts, writes,
                   serviceVars>>

\* parse_study_plan_lines has returned (or raised):
\* xml = dict_to_structured_xml(data); out_path.write_text(xml)
WriteStructured ==
    /\ ppc = "parse"
    /\ pc \in {"returned", "raised"}
    /\ IF pc = "returned"
       THEN /\ files' = [files EXCEPT
                            !.structured = dict_to_structured_xml(data)]
            /\ writes' = Append(writes, "structured")
            /\ ret' = "returned"
       ELSE /\ files' = files
            /\ writes' = writes
            /\ ret' = "raised"
    /\ ppc' = "idle"
    /\ lines' = <<>>
    /\ i' = 0
    /\ data' = <<>>
    /\ current_block' = 0
    /\ current_section' = NoSection
    /\ buffer_name' = <<>>
    /\ pc' = "unused"
    /\ used' = <<>>
    /\ UNCHANGED <<fn, arg, fitz, pdfminer_extract_text, text, calls,
                   attempts,
                   serviceVars>>

NextPipeline ==
    \/ Call_pdf_to_txt
    \/ Call_pdf_to_xml
    \/ Call_pdf_to_structured_xml
    \/ TryPyMuPDF
    \/ SkipPyMuPDF
    \/ TryPdfminer
    \/ SkipPdfminer
    \/ RaiseNoText
    \/ WriteText
    \/ WriteXml
    \/ ReadAndParse
    \/ Next
    \/ WriteStructured

SpecPipeline == InitPipeline /\ [][NextPipeline]_vars

(***************************************************************************)
(* C16: the backends are tried in sequence                                 *)
(***************************************************************************)

\* C16: PyMuPDF is attempted first whenever it is available; pdfminer runs
\* only after PyMuPDF was unavailable or raised, never after it succeeded;
\* each attempt starts after the outcome of the one before it is known.
C16_State ==
    /\ Len(attempts) <= 2
    /\ \A k \in 1..Len(attempts) :
           /\ attempts[k][1] = "pymupdf" => k = 1 /\ fitz
           /\ attempts[k][1] = "pdfminer" =>
                  /\ pdfminer_extract_text
                  /\ \/ k = 1 /\ ~fitz
                     \/ k = 2 /\ attempts[1] = <<"pymupdf", "raised">>
    /\ (fitz /\ ppc \in {"secondary", "check"}) =>
           (attempts # <<>> /\ attempts[1][1] = "pymupdf")

C16_Step ==
    attempts' # attempts =>
        \/ attempts' = <<>>
        \/ /\ Len(attempts') = Len(attempts) + 1
           /\ SubSeq(attempts', 1, Len(attempts)) = attempts
           /\ attempts'[Len(attempts')][1] = "pdfminer" => text = NoText
           /\ \A k \in 1..Len(attempts) : attempts[k][2] = "raised"

C16_SequentialFallback == []C16_State /\ [][C16_Step]_vars

\* PyMuPDF raised and pdfminer then gave the text
C16_Witness ==
    /\ attempts = <<<<"pymupdf", "raised">>, <<"pdfminer", "ok">>>>
    /\ text # NoText
    /\ ppc = "check"

(***************************************************************************)
(* C17: no text, no output                                                 *)
(***************************************************************************)

\* every backend was unavailable or raised
ExtractionFailed == ppc = "check" /\ text = NoText

\* C17: when every backend is unavailable or fails, pdf_to_txt raises
\* without trying any backend again and without writing the text file, and
\* the error leaves pdf_to_xml and pdf_to_structured_xml before they write
\* their output; a file that is written holds the complete output.
C17_State ==
    /\ ExtractionFailed =>
           /\ writes = <<>>
           /\ \A k \in 1..Len(attempts) : attempts[k][2] = "raised"
           /\ \A j, k \in 1..Len(attempts) :
                  attempts[j][1] = attempts[k][1] => j = k
    /\ (ppc = "idle" /\ ret = "raised") => writes = <<>>

C17_Step ==
    /\ ExtractionFailed =>
           /\ ppc' = "idle"
           /\ ret' = "raised"
           /\ fn' = fn
           /\ files' = files
           /\ attempts' = attempts
    /\ files'.xml # files.xml =>
           /\ files'.xml = document_xml(files.txt)
           /\ files.txt # NoFile
           /\ ret' = "returned"
    /\ files'.structured # files.structured =>
           /\ pc = "returned"
           /\ files'.structured = dict_to_structured_xml(data)
           /\ ret' = "returned"

C17_FailureWritesNothing == []C17_State /\ [][C17_Step]_vars

\* pdf_to_structured_xml without stored text: both backends raised, the
\* error came out and no file exists
C17_Witness ==
    /\ fn = "pdf_to_structured_xml"
    /\ ppc = "idle"
    /\ ret = "raised"
    /\ attempts = <<<<"pymupdf", "raised">>, <<"pdfminer", "raised">>>>
    /\ files = NoFiles

(***************************************************************************)
(* C18: titles are never empty                                             *)
(***************************************************************************)

\* a title with at least one character that is not white space
NonBlank(title) == Strip(title) # <<>>

\* C18: in every state of parse_study_plan_lines every Block, Section and
\* Discipline of the Document has a non-empty (non-blank) title.
C18_TitlesNonEmpty ==
    /\ \A b \in 1..Len(data) : NonBlank(data[b].title)
    /\ \A k \in 1..Len(AllSections(data)) :
           NonBlank(AllSections(data)[k].title)
    /\ \A k \in 1..Len(AllDisciplines(data)) :
           NonBlank(AllDisciplines(data)[k].title)

\* a Discipline met with nothing open: synthetic Block and Section, and a
\* title joined from two fragments
C18_Witness ==
    /\ pc = "returned"
    /\ Len(data) = 1
    /\ data[1].title = SyntheticBlockTitle
    /\ Len(data[1].sections) = 1
    /\ data[1].sections[1].title = SyntheticSectionTitle
    /\ Len(data[1].sections[1].disciplines) = 1
    /\ data[1].sections[1].disciplines[1].title
           = Strip(LineName1) \o <<32>> \o Strip(LineName2)

(***************************************************************************)
(* C19: every entity has exactly one container                             *)
(***************************************************************************)

\* the (1-based) positions of the lines consumed as tag, in input order
TaggedLines(tag) ==
    SelectSeq([j \in 1..Len(lines) |-> j], LAMBDA j : used[j] = tag)

\* number of Sections / Disciplines created so far: a Section per section
\* header line and per synthetic title, a Discipline per name line whose
\* three numbers were taken
SectionsCreated ==
    Len(TaggedLines("section")) + SyntheticSections(data)
DisciplinesCreated == Len(TaggedLines("semester"))

\* C19: every Section created so far is in the Document once, in one Block,
\* and every Discipline once, in one Section; current_block is a Block of
\* the Document and current_section a Section of current_block.
C19_OneContainer ==
    /\ Len(AllSections(data)) = SectionsCreated
    /\ Len(AllDisciplines(data)) = DisciplinesCreated
    /\ current_block \in 0..Len(data)
    /\ current_section # NoSection =>
           /\ current_block # 0
           /\ current_section[1] = current_block
           /\ current_section[2] \in 1..Len(data[current_block].sections)

\* a section header met with no Block open, then a Discipline: the Section
\* is in the synthetic Block and the Discipline in the Section
C19_Witness ==
    /\ Len(data) = 1
    /\ data[1].title = SyntheticBlockTitle
    /\ current_block = 1
    /\ current_section = <<1, 1>>
    /\ Len(data[1].sections) = 1
    /\ data[1].sections[1].title # SyntheticSectionTitle
    /\ Len(data[1].sections[1].disciplines) = 1

(***************************************************************************)
(* C20: the Document grows at its end only                                 *)
(***************************************************************************)

\* the sequence new is old, or old with entities appended at the end
IsPrefix(old, new) ==
    /\ Len(old) <= Len(new)
    /\ SubSeq(new, 1, Len(old)) = old

\* the Sections news are the Sections olds with, at most, Disciplines
\* appended to the last one and Sections appended after it
SectionsGrow(olds, news) ==
    /\ Len(olds) <= Len(news)
    /\ \A k \in 1..Len(olds) :
           /\ news[k].title = olds[k].title
           /\ news[k].semester = olds[k].semester
           /\ IsPrefix(olds[k].disciplines, news[k].disciplines)
           /\ k < Len(news) => news[k] = olds[k]

\* the same for the Blocks of the Document
BlocksGrow(olds, news) ==
    /\ Len(olds) <= Len(news)
    /\ \A k \in 1..Len(olds) :
           /\ news[k].title = olds[k].title
           /\ SectionsGrow(olds[k].sections, news[k].sections)
           /\ k < Len(news) => news[k] = olds[k]

\* titles of the Blocks / Sections that came from a header line
HeaderTitles(entities, synthetic) ==
    LET real == SelectSeq(entities, LAMBDA e : e.title # synthetic)
    IN [k \in 1..Len(real) |-> real[k].title]

\* the trimmed lines consumed as tag, in input order
TaggedTexts(tag) ==
    [k \in 1..Len(TaggedLines(tag)) |-> Strip(lines[TaggedLines(tag)[k]])]

\* the Blocks, Sections and Disciplines are in the order of the lines that
\* created them
C20_State ==
    /\ HeaderTitles(data, SyntheticBlockTitle) = TaggedTexts("block")
    /\ HeaderTitles(AllSections(data), SyntheticSectionTitle)
           = TaggedTexts("section")
    /\ Len(AllDisciplines(data)) = Len(TaggedLines("credits"))
    /\ \A k \in 1..Len(AllDisciplines(data)) :
           LET d == AllDisciplines(data)[k]
               at == TaggedLines("credits")[k]
           IN /\ d.credits = IntOf(lines[at])
              /\ d.hours = IntOf(lines[at + 1])
              /\ d.semester = IntOf(lines[at + 2])

\* C20: each step leaves every Block, Section and Discipline in place and
\* unchanged and adds new ones after the last; the order of the entities is
\* the order of the input lines that created them.
C20_AppendOnly == []C20_State /\ [][BlocksGrow(data, data')]_vars

\* a Block with two different Sections, in the order of their header lines
C20_Witness ==
    /\ pc = "returned"
    /\ Len(data) = 1
    /\ Len(data[1].sections) = 2
    /\ data[1].sections[1].title = Strip(LineSectionSem)
    /\ data[1].sections[2].title = Strip(LineSemOnly)

(***************************************************************************)
(* The two serialized outputs of one conversion                            *)
(***************************************************************************)

\* the texts _clean_lines produces
NormalizedTexts == {clean_lines(X) : X \in LineSeqsUpTo(RawLines, MaxLines)}

\* what is serialized: a Document (with the text of an empty PDF) or a
\* normalized text (with the empty Document)
InitOutputs ==
    /\ ParserIdle
    /\ PipelineIdle
    /\ ServicesIdle
    /\ fn = "idle"
    /\ arg \in {[data |-> d, content |-> clean_lines(<<>>)] :
                    d \in DocumentsUpTo(MaxEntities)}
               \cup {[data |-> <<>>, content |-> t] : t \in NormalizedTexts}
    /\ ret = <<>>

\* ret = dict_to_structured_xml(data)
Serialize_structured ==
    /\ fn = "idle"
    /\ fn' = "dict_to_structured_xml"
    /\ ret' = dict_to_structured_xml(arg.data)
    /\ UNCHANGED <<arg, parserVars, pipelineVars, serviceVars>>

\* ret = the xml text of pdf_to_xml for the stored text content
Serialize_document ==
    /\ fn = "idle"
    /\ fn' = "pdf_to_xml"
    /\ ret' = document_xml(arg.content)
    /\ UNCHANGED <<arg, parserVars, pipelineVars, serviceVars>>

NextOutputs == Serialize_structured \/ Serialize_document

SpecOutputs == InitOutputs /\ [][NextOutputs]_vars

(***************************************************************************)
(* C21: both outputs end with exactly one newline                          *)
(***************************************************************************)

\* str ends with the closing tag and one "\n" after it
EndsWithTagAndNewline(str, closing) ==
    /\ Len(str) > Len(closing)
    /\ str[Len(str)] = 10
    /\ SubSeq(str, Len(str) - Len(closing), Len(str) - 1) = closing
    /\ closing[Len(closing)] # 10

\* C21: the text of dict_to_structured_xml ends with "</study_plan>" and
\* one newline, the text of pdf_to_xml with "</document>" and one newline.
C21_OneTrailingNewline ==
    /\ fn = "dict_to_structured_xml" =>
           EndsWithTagAndNewline(ret, StudyPlanClose)
    /\ fn = "pdf_to_xml" => EndsWithTagAndNewline(ret, DocumentClose)

\* a normalized text of two lines, itself ending with "\n", in the document
C21_Witness ==
    /\ fn = "pdf_to_xml"
    /\ arg.content = <<97, 98, 10, 53, 10>>
    /\ SubSeq(ret, Len(ret) - 13, Len(ret))
           = <<10, 10>> \o DocumentClose \o <<10>>

(***************************************************************************)
(* parse_study_plan_lines on inputs with interrupted names                 *)
(***************************************************************************)
MaxFragmentItems == 4

\* a fragment, the lines that may separate it from the rest of the name, a
\* name line with its three numbers, and the two headers
FragmentItems ==
    {<<LineName1>>, <<LineBlank>>, <<LineTotal>>, <<NumberPool[1]>>,
     <<LineName2>> \o NumberRun(3), <<LineBlock>>, <<LineSectionSem>>}

RECURSIVE FragmentInputsUpTo(_)
FragmentInputsUpTo(k) ==
    IF k = 0 THEN {<<>>}
    ELSE LET shorter == FragmentInputsUpTo(k - 1)
         IN shorter \cup {p \o it : p \in shorter, it \in FragmentItems}

InitFragments ==
    /\ lines \in FragmentInputsUpTo(MaxFragmentItems)
    /\ i = 0
    /\ data = <<>>
    /\ current_block = 0
    /\ current_section = NoSection
    /\ buffer_name = <<>>
    /\ pc = "loop"
    /\ used = [j \in 1..Len(lines) |-> "pending"]
    /\ fn = "idle"
    /\ arg = <<>>
    /\ ret = FALSE
    /\ PipelineIdle
    /\ ServicesIdle

SpecFragments == InitFragments /\ [][Next]_vars

(***************************************************************************)
(* C22: name_buffer is emptied only by a block header, a section header or *)
(* a Discipline emission; blank, total and stray integer lines leave it    *)
(* unchanged.  A Discipline's title is the space-join of every line since  *)
(* the last such reset that has content and is not an integer, total or    *)
(* header line, fragments before blank, total or stray integer lines       *)
(* included; no integer line is part of a title; fragments still buffered  *)
(* at the end of the input produce no Discipline.                          *)
(***************************************************************************)
\* a line with content that is no integer, total or header line
IsFragmentText(s) ==
    /\ s # <<>>
    /\ ~is_int_line(s)
    /\ ~is_total_line(s)
    /\ ~block_re_match(s)
    /\ ~looks_like_section_title(s)

\* the last line at or before the cursor that emptied the buffer: a header or
\* the last number of an emitted Discipline (0: none yet)
LastReset ==
    LET rs == {q \in 0..i :
                  q = 0 \/ used[q] \in {"block", "section", "semester"}}
    IN CHOOSE q \in rs : \A q2 \in rs : q2 <= q

\* the trimmed lines from..to that are fragments, in input order
FragmentsIn(from, to) ==
    SelectSeq([j \in 1..(to - from + 1) |-> Strip(lines[from + j - 1])],
              IsFragmentText)

C22_State ==
    /\ pc = "loop" /\ i <= Len(lines) =>
           buffer_name = FragmentsIn(LastReset + 1, i)
    /\ \A k \in 1..Len(buffer_name) : ~is_int_line(buffer_name[k])

C22_Step ==
    /\ (IsBlankLine \/ IsTotalLine \/ IsStrayInteger) =>
           buffer_name' = buffer_name
    /\ (buffer_name # <<>> /\ buffer_name' = <<>>) =>
           IsBlockHeader \/ IsSectionHeader \/ Emits
    /\ buffer_name' # buffer_name =>
           \/ buffer_name' = <<>>
           \/ IsNameLine /\ buffer_name' = Append(buffer_name, line)
    /\ Emits =>
           LET after == AllDisciplines(data')
               parts == FragmentsIn(LastReset + 1, i + 1)
           IN /\ after[Len(after)].title = SpaceSeparated(parts)
              /\ \A k \in 1..Len(parts) : ~is_int_line(parts[k])
              /\ buffer_name' = <<>>
    /\ (pc = "loop" /\ pc' = "returned") =>
           /\ data' = data
           /\ buffer_name' = buffer_name

C22_BufferSurvivesSeparators == []C22_State /\ [][C22_Step]_vars

\* "Metody", "Itogo po bloku"-like total line, "5", " glubokogo obucheniya",
\* "5", "144", "2" parsed: the title joins the fragment before the total and
\* the stray number with the name line
C22_Witness ==
    /\ lines = <<LineName1, LineTotal, NumberPool[1], LineName2>>
                   \o NumberRun(3)
    /\ pc = "returned"
    /\ used[2] = "total"
    /\ used[3] = "stray"
    /\ Len(AllDisciplines(data)) = 1
    /\ AllDisciplines(data)[1].title = LineName1 \o <<32>> \o Strip(LineName2)
    /\ buffer_name = <<>>

(***************************************************************************)
(* C23: the stored text wins over the PDF passed in                        *)
(***************************************************************************)

\* a call of pdf_to_xml or pdf_to_structured_xml begins
XmlCallBegins ==
    /\ ppc = "idle"
    /\ ppc' # "idle"
    /\ fn' \in {"pdf_to_xml", "pdf_to_structured_xml"}

\* a backend is invoked
BackendInvoked == attempts' # attempts /\ attempts' # <<>>

\* C23: pdf_to_xml and pdf_to_structured_xml run the extraction iff the
\* text file does not exist; when it exists no backend is invoked and its
\* content is used unchanged: the XML outputs are made from the stored
\* text, whatever PDF was passed in, and the stored text changes only when
\* pdf_to_txt runs (called directly, or because the file was missing).
C23_State ==
    /\ ppc \in {"read", "parse"} => files.txt # NoFile
    /\ ppc = "parse" => lines = SplitLines(files.txt)
    /\ (fn = "pdf_to_xml" /\ ppc = "idle" /\ ret = "returned") =>
           files.xml = document_xml(files.txt)

C23_Step ==
    /\ XmlCallBegins =>
           /\ ppc' = "primary" <=> files.txt = NoFile
           /\ ppc' = "read" <=> files.txt # NoFile
    /\ (BackendInvoked /\ fn # "pdf_to_txt") => files.txt = NoFile
    /\ files'.txt # files.txt =>
           /\ fn = "pdf_to_txt" \/ files.txt = NoFile
           /\ files'.txt = clean_lines(arg)
    /\ files'.xml # files.xml => files'.xml = document_xml(files.txt)
    /\ files'.structured # files.structured =>
           /\ lines = SplitLines(files.txt)
           /\ files'.structured = dict_to_structured_xml(data)

C23_StoredTextWins == []C23_State /\ [][C23_Step]_vars

\* the text of the empty PDF is stored; pdf_to_xml is given the plan and
\* writes the document of the stored text without running a backend
C23_Witness ==
    /\ fn = "pdf_to_xml"
    /\ arg = RawPlan
    /\ ppc = "idle"
    /\ ret = "returned"
    /\ attempts = <<>>
    /\ writes = <<"xml">>
    /\ files.txt = clean_lines(RawEmpty)
    /\ files.xml = document_xml(clean_lines(RawEmpty))
    /\ files.xml # document_xml(clean_lines(RawPlan))

(***************************************************************************)
(* The Telegram bot (services/telegram_bot.py)                             *)
(***************************************************************************)

\* the Telegram chats that write to the bot: two, so that each handler has
\* a chat of its own and a foreign one (a handler reads and writes
\* sessions at update.effective_chat.id only)
ChatIds == {1, 2}

\* st.chat = None
NoChat == <<-1>>

\* "a.pdf" (named by data/latest.txt), "b.pdf" (named in /set_program)
PathLatest == <<97, 46, 112, 100, 102>>
PathNamed == <<98, 46, 112, 100, 102>>

\* " ab\n": the text of a program; "ML": a background
ProgramText == <<32, 97, 98, 10>>
Background == <<77, 76>>

\* ChatState(): chat None, program_path None, knowledge_text "", background ""
NewChatState ==
    [chat |-> NoChat, program_path |-> NoPath,
     knowledge_text |-> <<>>, background |-> <<>>]

\* variant: a new ChatState is made on every access
ChatSessions_get_AlwaysNew(ss, cr, c) ==
    [sessions |-> [k \in DOMAIN ss \cup {c} |->
                      IF k = c THEN NewChatState ELSE ss[k]],
     created |-> [cr EXCEPT ![c] = @ + 1]]

\* ChatSessions.get(chat_id): the sessions afterwards (the ChatState
\* returned is the entry of chat_id) and the count of ChatState() calls
ChatSessions_get(ss, cr, c) ==
    IF c \in DOMAIN ss
    THEN [sessions |-> ss, created |-> cr]
    ELSE [sessions |-> [k \in DOMAIN ss \cup {c} |->
                           IF k = c THEN NewChatState ELSE ss[k]],
          created |-> [cr EXCEPT ![c] = @ + 1]]

\* "P", "\n\nB:\n", "\n\nM:\n": BASE_SYSTEM_POLICY and the two headings,
\* shortened
PolicyText == <<80>>
BackgroundHeading == <<10, 10, 66, 58, 10>>
MaterialsHeading == <<10, 10, 77, 58, 10>>

\* build_system_instruction (texts stay below max_chars)
build_system_instruction(knowledge_text, background) ==
    JoinLines(<<PolicyText>>
              \o (IF Strip(background) # <<>>
                  THEN <<BackgroundHeading \o Strip(background)>>
                  ELSE <<>>)
              \o <<MaterialsHeading \o Strip(knowledge_text)>>)

\* create_or_refresh_chat: st.chat = genai_client.chats.create(...); when
\* create raises (ok false) the assignment does not happen.  A chat object
\* is identified by the system instruction it was created with.
create_or_refresh_chat(st, ok) ==
    IF ok
    THEN [st EXCEPT !.chat =
              build_system_instruction(st.knowledge_text, st.background)]
    ELSE st

\* (None, ""): no program found
NoResult == <<NoPath, <<>>>>

\* read_program_text_from_latest(): (None, ""), (pdf_path, text) or
\* (pdf_path, ""), by what the disk holds at the time of the call
LatestResults ==
    {NoResult, <<PathLatest, ProgramText>>, <<PathLatest, <<>>>>}

\* cmd_set_program: what the argument leads to: the latest program, or the
\* materials of the named program, or nothing found
ProgramLookups(a) ==
    IF a = "latest" THEN LatestResults
    ELSE {NoResult, <<PathNamed, ProgramText>>}

\* if p is not None: st.program_path = p; st.knowledge_text = text
BindProgram(st, r) ==
    IF r[1] # NoPath
    THEN [st EXCEPT !.program_path = r[1], !.knowledge_text = r[2]]
    ELSE st

InitBot ==
    /\ ParserIdle
    /\ PipelineIdle
    /\ WebIdle
    /\ fn = "idle"
    /\ arg = <<>>
    /\ ret = FALSE
    /\ sessions = <<>>
    /\ created = [c \in ChatIds |-> 0]
    /\ update = [chat_id |-> 0, handler |-> "none"]
    /\ reply = "none"
    /\ sent = <<>>

\* cmd_start; r: what read_program_text_from_latest returns (it is called
\* only without a program), ok: chats.create returns
cmd_start(c) ==
    \E r \in IF c \in DOMAIN sessions /\ sessions[c].program_path # NoPath
              THEN {NoResult} ELSE LatestResults,
       ok \in BOOLEAN :
        LET g == ChatSessions_get(sessions, created, c)
            st == g.sessions[c]
            st1 == IF st.program_path = NoPath THEN BindProgram(st, r)
                   ELSE st
            st2 == create_or_refresh_chat(st1, ok)
        IN /\ sessions' = [g.sessions EXCEPT ![c] = st2]
           /\ created' = g.created
           /\ update' = [chat_id |-> c, handler |-> "cmd_start"]
           /\ reply' = IF ok THEN "ready" ELSE "raised"
           /\ sent' = <<>>
           /\ UNCHANGED <<fn, arg, ret, parserVars, pipelineVars, webVars>>

\* cmd_set_program; a: the argument names the latest program or another
\* one; the chat is refreshed only when materials were found
cmd_set_program(c) ==
    \E a \in {"latest", "named"} : \E r \in ProgramLookups(a) :
      \E ok \in IF r[1] = NoPath THEN {TRUE} ELSE BOOLEAN :
        LET g == ChatSessions_get(sessions, created, c)
            st == g.sessions[c]
            st2 == create_or_refresh_chat(BindProgram(st, r), ok)
        IN /\ sessions' = IF r[1] = NoPath THEN g.sessions
                          ELSE [g.sessions EXCEPT ![c] = st2]
           /\ created' = g.created
           /\ update' = [chat_id |-> c, handler |-> "cmd_set_program"]
           /\ reply' = IF r[1] = NoPath THEN "not found"
                       ELSE IF ok THEN "program set" ELSE "raised"
           /\ sent' = <<>>
           /\ UNCHANGED <<fn, arg, ret, parserVars, pipelineVars, webVars>>

\* cmd_set_background; bg: the stripped argument text
cmd_set_background(c) ==
    \E bg \in {<<>>, Background} :
      \E ok \in IF bg = <<>> THEN {TRUE} ELSE BOOLEAN :
        LET g == ChatSessions_get(sessions, created, c)
            st == g.sessions[c]
            st2 == create_or_refresh_chat([st EXCEPT !.background = bg], ok)
        IN /\ sessions' = IF bg = <<>> THEN g.sessions
                          ELSE [g.sessions EXCEPT ![c] = st2]
           /\ created' = g.created
           /\ update' = [chat_id |-> c, handler |-> "cmd_set_background"]
           /\ reply' = IF bg = <<>> THEN "usage"
                       ELSE IF ok THEN "background saved" ELSE "raised"
           /\ sent' = <<>>
           /\ UNCHANGED <<fn, arg, ret, parserVars, pipelineVars, webVars>>

\* cmd_reset: st.chat = None; create_or_refresh_chat(...)
cmd_reset(c) ==
    \E ok \in BOOLEAN :
        LET g == ChatSessions_get(sessions, created, c)
            st == g.sessions[c]
            st2 == create_or_refresh_chat([st EXCEPT !.chat = NoChat], ok)
        IN /\ sessions' = [g.sessions EXCEPT ![c] = st2]
           /\ created' = g.created
           /\ update' = [chat_id |-> c, handler |-> "cmd_reset"]
           /\ reply' = IF ok THEN "reset" ELSE "raised"
           /\ sent' = <<>>
           /\ UNCHANGED <<fn, arg, ret, parserVars, pipelineVars, webVars>>

\* cmd_help: replies, without looking at the sessions
cmd_help(c) ==
    /\ update' = [chat_id |-> c, handler |-> "cmd_help"]
    /\ reply' = "help"
    /\ sent' = <<>>
    /\ UNCHANGED <<sessions, created, fn, arg, ret, parserVars, pipelineVars,
                   webVars>>

\* handle_text; hasText: update.message and update.message.text are
\* present; r, ok: as in cmd_start, used when st.chat is None; sendOk:
\* send_message returned (else it raised and the except branch replied)
handle_text(c) ==
    \E hasText \in BOOLEAN :
      \E needed \in {hasText /\ (c \notin DOMAIN sessions
                                  \/ sessions[c].chat = NoChat)} :
      \E r \in IF needed THEN LatestResults ELSE {NoResult} :
      \E ok \in IF needed THEN BOOLEAN ELSE {TRUE} :
      \E sendOk \in IF hasText /\ (ok \/ ~needed) THEN BOOLEAN ELSE {TRUE} :
        LET g == ChatSessions_get(sessions, created, c)
            st == g.sessions[c]
            missing == st.chat = NoChat
            st1 == IF missing THEN BindProgram(st, r) ELSE st
            st2 == IF missing THEN create_or_refresh_chat(st1, ok) ELSE st
            createRaised == missing /\ ~ok
        IN /\ update' = [chat_id |-> c, handler |-> "handle_text"]
           /\ IF ~hasText
              THEN /\ reply' = "none"
                   /\ sent' = <<>>
                   /\ UNCHANGED <<sessions, created>>
              ELSE /\ sessions' = [g.sessions EXCEPT ![c] = st2]
                   /\ created' = g.created
                   /\ sent' = IF createRaised THEN <<>> ELSE <<st2.chat>>
                   /\ reply' = IF createRaised THEN "raised"
                               ELSE IF sendOk /\ st2.chat # NoChat
                               THEN "answer" ELSE "request failed"
           /\ UNCHANGED <<fn, arg, ret, parserVars, pipelineVars, webVars>>

NextBot ==
    \E c \in ChatIds :
        \/ cmd_start(c)
        \/ cmd_set_program(c)
        \/ cmd_set_background(c)
        \/ cmd_reset(c)
        \/ cmd_help(c)
        \/ handle_text(c)

SpecBot == InitBot /\ [][NextBot]_vars

(***************************************************************************)
(* C24: one ChatState per chat, touched only by its own chat's handlers    *)
(***************************************************************************)

\* the handlers that begin with chats.get(update.effective_chat.id)
AccessingCommands ==
    {"cmd_start", "cmd_set_program", "cmd_set_background", "cmd_reset"}

\* C24: over every interleaving of /start, /reset, /set_program,
\* /set_background, /help and text messages of several chats, each chat id
\* has exactly one ChatState, made on its first access and kept afterwards;
\* a handler changes only the state of the chat it was invoked for; and
\* handle_text calls send_message only on a chat object, never on None.
C24_State ==
    /\ DOMAIN sessions \subseteq ChatIds
    /\ \A c \in ChatIds :
           created[c] = IF c \in DOMAIN sessions THEN 1 ELSE 0
    /\ \A k \in 1..Len(sent) : sent[k] # NoChat

C24_Step ==
    /\ DOMAIN sessions \subseteq DOMAIN sessions'
    /\ \A c \in ChatIds :
           c # update'.chat_id =>
               /\ c \in DOMAIN sessions' => c \in DOMAIN sessions
               /\ c \in DOMAIN sessions => sessions'[c] = sessions[c]
               /\ created'[c] = created[c]
    /\ (update'.handler \in AccessingCommands \/ sent' # <<>>) =>
           update'.chat_id \in DOMAIN sessions'
    /\ sent' # <<>> =>
           /\ update'.handler = "handle_text"
           /\ sent' = <<sessions'[update'.chat_id].chat>>
    /\ \A c \in DOMAIN sessions :
           /\ sessions'[c].program_path # sessions[c].program_path =>
                  update'.handler
                      \in {"cmd_start", "cmd_set_program", "handle_text"}
           /\ sessions'[c].background # sessions[c].background =>
                  update'.handler = "cmd_set_background"

C24_OneStatePerChat == []C24_State /\ [][C24_Step]_vars

\* chat 1 has a program and a background, chat 2 has neither; chat 2 wrote
\* a text after its chat object was lost (/reset with a failing create):
\* the chat was created first and the message sent on it
C24_Witness ==
    /\ DOMAIN sessions = {1, 2}
    /\ sessions[1].background = Background
    /\ sessions[1].program_path = PathLatest
    /\ sessions[2].background = <<>>
    /\ sessions[2].program_path = NoPath
    /\ update = [chat_id |-> 2, handler |-> "handle_text"]
    /\ sent = <<build_system_instruction(<<>>, <<>>)>>
    /\ sessions[1].chat # sessions[2].chat
    /\ created = [c \in ChatIds |-> 1]

(***************************************************************************)
(* The web application (app/main.py)                                       *)
(***************************************************************************)

\* "/d/a.pdf", "/d/b.pdf": downloaded PDFs (the downloader stores resolved
\* paths); ".": what Path("") is, the working directory
PdfA == <<47, 100, 47, 97, 46, 112, 100, 102>>
PdfB == <<47, 100, 47, 98, 46, 112, 100, 102>>
Dot == <<46>>

\* "data/processed/", ".txt", ".xml", ".structured.xml"
ProcessedPrefix ==
    <<100, 97, 116, 97, 47, 112, 114, 111, 99, 101, 115, 115, 101, 100, 47>>
SuffixTxt == <<46, 116, 120, 116>>
SuffixXml == <<46, 120, 109, 108>>
SuffixStructured ==
    <<46, 115, 116, 114, 117, 99, 116, 117, 114, 101, 100, 46, 120, 109, 108>>

\* Path(s): the empty string is the path "."
PathOf(s) == IF s = <<>> THEN Dot ELSE s

\* Path.name: the last component ("" for ".")
PathName(p) ==
    IF p = Dot THEN <<>>
    ELSE LET slashes == {k \in 1..Len(p) : p[k] = 47}
             last == IF slashes = {} THEN 0
                     ELSE CHOOSE k \in slashes : \A j \in slashes : j <= k
         IN SubSeq(p, last + 1, Len(p))

\* Path.stem: the name without its last suffix (a leading or trailing dot
\* starts no suffix)
PathStem(p) ==
    LET name == PathName(p)
        dots == {k \in 1..Len(name) : name[k] = 46}
        last == IF dots = {} THEN 0
                ELSE CHOOSE k \in dots : \A j \in dots : j <= k
    IN IF 1 < last /\ last < Len(name) THEN SubSeq(name, 1, last - 1)
       ELSE name

\* PROCESSED_DIR / f"{stem}<suffix>"
Processed(stem, suffix) == ProcessedPrefix \o stem \o suffix

\* the paths whose state is tracked; every other path does not exist
TrackedFiles ==
    {PdfA, PdfB, Processed(PathStem(PdfA), SuffixTxt),
     Processed(PathStem(PdfA), SuffixXml),
     Processed(PathStem(PdfA), SuffixStructured)}

\* Path.is_file()
is_file(p) == p \in DOMAIN disk /\ disk[p] = "file"

\* variant: only regular files exist
exists_FilesOnly(p) == is_file(p)

\* Path.exists(): true of files and of directories
exists(p) == p \in DOMAIN disk /\ disk[p] \in {"file", "dir"}

\* what data/latest.txt may hold when the server starts: "/d/a.pdf" with and
\* without a final newline, nothing, or white space
LatestContents ==
    {PdfA, Append(PdfA, 10), <<>>, <<32, 10>>}

\* the kinds requested: the four known ones and "docx"
KnownKinds == {"pdf", "txt", "xml", "structured"}
Kinds == KnownKinds \cup {"docx"}

NoResponse == [handler |-> "none", kind |-> "", status |-> 0, file |-> NoPath]

InitWeb ==
    /\ ParserIdle
    /\ PipelineIdle
    /\ BotIdle
    /\ fn = "idle"
    /\ arg = <<>>
    /\ ret = FALSE
    /\ LATEST_PDF = NoPath
    /\ latest_txt \in {NoFile} \cup LatestContents
    /\ disk \in {[p \in TrackedFiles \cup {Dot} |->
                     IF p = Dot THEN "dir"
                     ELSE IF p \in present THEN "file" ELSE "absent"] :
                 present \in SUBSET (TrackedFiles \ {PdfB})}
    /\ started = FALSE
    /\ response = NoResponse

\* lifespan, startup part (j = False: the else branch)
lifespan ==
    /\ ~started
    /\ started' = TRUE
    /\ LATEST_PDF' =
           IF latest_txt # NoFile
           THEN LET pdf_path == PathOf(Strip(latest_txt))
                IN IF exists(pdf_path) THEN pdf_path ELSE NoPath
           ELSE NoPath
    /\ UNCHANGED <<latest_txt, disk, response, fn, arg, ret, parserVars,
                   pipelineVars, botVars>>

\* GET /
root ==
    /\ started
    /\ response' = [handler |-> "root", kind |-> "", status |-> 200,
                    file |-> NoPath]
    /\ UNCHANGED <<LATEST_PDF, latest_txt, disk, started, fn, arg, ret,
                   parserVars, pipelineVars, botVars>>

\* GET /status: "ready" and, when ready, the pdf path
status ==
    /\ started
    /\ response' = [handler |-> "status",
                    kind |-> IF LATEST_PDF = NoPath THEN "not ready"
                             ELSE "ready",
                    status |-> 200,
                    file |-> LATEST_PDF]
    /\ UNCHANGED <<LATEST_PDF, latest_txt, disk, started, fn, arg, ret,
                   parserVars, pipelineVars, botVars>>

\* mapping.get(kind) in get_file (NoPath: None)
mapping(kind) ==
    LET stem == PathStem(LATEST_PDF)
    IN IF kind = "pdf" THEN LATEST_PDF
       ELSE IF kind = "txt" THEN Processed(stem, SuffixTxt)
       ELSE IF kind = "xml" THEN Processed(stem, SuffixXml)
       ELSE IF kind = "structured" THEN Processed(stem, SuffixStructured)
       ELSE NoPath

\* GET /files/{kind}: 503, 404 or FileResponse(path)
get_file(kind) ==
    /\ started
    /\ response' =
           IF LATEST_PDF = NoPath
           THEN [handler |-> "get_file", kind |-> kind, status |-> 503,
                 file |-> NoPath]
           ELSE LET path == mapping(kind)
                IN IF path = NoPath \/ ~exists(path)
                   THEN [handler |-> "get_file", kind |-> kind,
                         status |-> 404, file |-> NoPath]
                   ELSE [handler |-> "get_file", kind |-> kind,
                         status |-> 200, file |-> path]
    /\ UNCHANGED <<LATEST_PDF, latest_txt, disk, started, fn, arg, ret,
                   parserVars, pipelineVars, botVars>>

\* src.downloader main, run beside the server: stores a PDF and writes its
\* path to data/latest.txt
downloader_main ==
    /\ disk[PdfB] = "absent"
    /\ disk' = [disk EXCEPT ![PdfB] = "file"]
    /\ latest_txt' = PdfB
    /\ UNCHANGED <<LATEST_PDF, started, response, fn, arg, ret, parserVars,
                   pipelineVars, botVars>>

NextWeb ==
    \/ lifespan
    \/ root
    \/ status
    \/ \E kind \in Kinds : get_file(kind)
    \/ downloader_main

SpecWeb == InitWeb /\ [][NextWeb]_vars

(***************************************************************************)
(* C25: GET /files/{kind}                                                  *)
(***************************************************************************)

\* a request of /files/{kind} is answered
FileRequestAnswered ==
    /\ response'.handler = "get_file"
    /\ UNCHANGED <<LATEST_PDF, latest_txt, disk, started>>

\* C25: GET /files/{kind} answers 503 whenever no latest PDF is known, for
\* every kind; otherwise it answers 404 when kind is not one of pdf, txt,
\* xml, structured or the mapped file does not exist, and serves the file
\* only when both checks pass.  The latest PDF is fixed at startup: it is
\* set only if latest.txt exists and names an existing file, and no request
\* changes it.
C25_Step ==
    /\ FileRequestAnswered =>
           LET kind == response'.kind
           IN IF LATEST_PDF = NoPath THEN response'.status = 503
              ELSE IF kind \notin KnownKinds \/ ~is_file(mapping(kind))
              THEN response'.status = 404
              ELSE /\ response'.status = 200
                   /\ response'.file = mapping(kind)
    /\ started => LATEST_PDF' = LATEST_PDF
    /\ (~started /\ LATEST_PDF' # NoPath) =>
           /\ latest_txt # NoFile
           /\ is_file(PathOf(Strip(latest_txt)))
           /\ LATEST_PDF' = PathOf(Strip(latest_txt))

C25_FilesEndpoint ==
    [](~started => LATEST_PDF = NoPath) /\ [][C25_Step]_vars

=============================================================================
